---- MODULE Spec2Model ----
(***************************************************************************)
(* Model of the slicer-compatible 3MF exporter of bekuto3d                 *)
(* (src/src/composables/3mf-exporter.ts): exportTo3MF, collectComponents,  *)
(* the four document builders and the archive.                             *)
(*                                                                         *)
(* Conventions.                                                            *)
(*  - A JavaScript value that may be null/undefined is a sequence of       *)
(*    length 0 (absent) or 1 (present).                                    *)
(*  - A string that the code builds by concatenation is the sequence of    *)
(*    its pieces; a hex colour string is the sequence of its characters.   *)
(*  - A colour channel (a float in [0,1]) is the integer k standing for    *)
(*    k/510, so that the 8-bit value b is 2*b and values between two       *)
(*    8-bit steps exist.                                                   *)
(*  - A node transform is a translation along x; matrixWorld is the sum    *)
(*    of the translations from the root down to the node. scene.world is   *)
(*    the matrixWorld each node caches.                                    *)
(***************************************************************************)
EXTENDS Integers, Sequences, FiniteSets

\* ------------------------------------------------------------------ bounds
\* Largest number of nodes of an exported scene.
MaxNodes == 3

\* Largest number of nodes of a scene of the deeper trees of SpecTree.
MaxTreeNodes == 4

\* Largest number of nodes of the scenes of the two calls of SpecTwo.
MaxCallNodes == 2

\* Largest number of exports started in one behaviour of SpecUI.
MaxExports == 2

\* ------------------------------------------------------- program constants
DefaultGray == 8421504
AssemblyId == 97
ComponentIdBase == 100
MinFilaments == 2
FixedDecimals == 7

\* The value JavaScript yields for a read past the end of a typed array.
Undefined == -1

\* ------------------------------------------------------------ three.Color
\* Channel value of the 8-bit value b.
Byte(b) == 2 * b

\* Color.set(hex) / Color.setHex(hex): each channel is its byte / 255.
SetHex(hex) ==
  [r |-> Byte((hex \div 65536) % 256),
   g |-> Byte((hex \div 256) % 256),
   b |-> Byte(hex % 256)]

Orange == [r |-> Byte(255), g |-> Byte(165), b |-> Byte(0)]
\* A colour one half 8-bit step away from Orange in the red channel only.
NearOrange == [r |-> Byte(255) - 1, g |-> Byte(165), b |-> Byte(0)]
Gray == SetHex(DefaultGray)

\* ------------------------------------------------------------ hex strings
HexDigits ==
  <<"0", "1", "2", "3", "4", "5", "6", "7", "8", "9", "a", "b", "c", "d", "e", "f">>

\* Number.prototype.toString(16) of a non-negative integer.
RECURSIVE ToString16(_)
ToString16(n) ==
  IF n < 16 THEN <<HexDigits[n + 1]>>
  ELSE ToString16(n \div 16) \o <<HexDigits[(n % 16) + 1]>>

\* String.prototype.padStart(len, ch).
RECURSIVE PadStart(_, _, _)
PadStart(s, len, ch) == IF Len(s) >= len THEN s ELSE PadStart(<<ch>> \o s, len, ch)

\* Math.round(c * 255) of a channel c = k/510.
Round255(k) == (k + 1) \div 2

ChannelHex(k) == PadStart(ToString16(Round255(k)), 2, "0")

\* Variant of rgbToHexColor: the channels written in the order b, g, r.
rgbToHexColorReversed(color) ==
  <<"#">> \o ChannelHex(color.b) \o ChannelHex(color.g) \o ChannelHex(color.r)

rgbToHexColor(color) ==
  <<"#">> \o ChannelHex(color.r) \o ChannelHex(color.g) \o ChannelHex(color.b)

PaddingColour == <<"#", "F", "F", "F", "F", "F", "F">>

\* ------------------------------------------------------------ the scene
Vtx(x, y, z) == [x |-> x, y |-> y, z |-> z]

UnitSquare == <<Vtx(0, 0, 0), Vtx(1, 0, 0), Vtx(1, 1, 0), Vtx(0, 1, 0)>>
SquareIndex == <<0, 1, 2, 0, 2, 3>>
OneTriangle == <<Vtx(0, 0, 0), Vtx(1, 0, 0), Vtx(0, 1, 0)>>

\* geometry: position is <<>> (no position attribute) or <<vertex list>>;
\* index is <<>> (geometry.index is null) or <<index array>>.
Geom(position, index) == [position |-> position, index |-> index]

SquareGeom == Geom(<<UnitSquare>>, <<SquareIndex>>)
TriangleGeom == Geom(<<OneTriangle>>, <<>>)
\* Non-indexed, 4 vertices: the vertex count is not a multiple of three.
OddVertexGeom == Geom(<<UnitSquare>>, <<>>)
\* Indexed, 4 indices: the index count is not a multiple of three.
OddIndexGeom == Geom(<<OneTriangle>>, <<<<0, 1, 2, 0>>>>)
EmptyGeom == Geom(<<<<>>>>, <<>>)
NoPositionGeom == Geom(<<>>, <<>>)

\* material: <<>> (mesh.material is null/undefined) or <<[color |-> c]>>,
\* c being <<>> (the material has no colour) or <<colour>>.
NoMaterial == <<>>
Colourless == <<[color |-> <<>>]>>
Coloured(c) == <<[color |-> <<c>>]>>

MeshNode(name, tx, material, geometry) ==
  [type |-> "Mesh", name |-> name, tx |-> tx, material |-> material, geometry |-> geometry]

GroupNode(tx) ==
  [type |-> "Group", name |-> "", tx |-> tx, material |-> NoMaterial, geometry |-> NoPositionGeom]

\* The nodes a scene is built from.
NodeKinds ==
  { GroupNode(0),
    MeshNode("A", 0, Coloured(Orange), SquareGeom),
    MeshNode("B", 10, Coloured(Orange), SquareGeom),
    MeshNode("", 0, Coloured(NearOrange), SquareGeom),
    MeshNode("", 0, Coloured(Gray), TriangleGeom),
    MeshNode("C", 0, Colourless, SquareGeom),
    MeshNode("", 10, NoMaterial, SquareGeom),
    MeshNode("", 0, Coloured(Gray), OddVertexGeom),
    MeshNode("", 0, NoMaterial, OddIndexGeom),
    MeshNode("", 0, Colourless, EmptyGeom),
    MeshNode("", 0, Coloured(Orange), NoPositionGeom) }

Nodes == 1 .. MaxNodes

\* Ascending sequence of the elements of a finite set of integers.
RECURSIVE SortedSeq(_)
SortedSeq(S) ==
  IF S = {} THEN <<>>
  ELSE LET m == CHOOSE x \in S : \A y \in S : x <= y
       IN <<m>> \o SortedSeq(S \ {m})

\* The parent maps of the trees over nodes 1..n rooted at 1: the parent of a node
\* has a smaller number (0: no parent); children are stored in ascending order.
Parents(n) == { q \in [1 .. n -> 0 .. n] : q[1] = 0 /\ \A i \in 2 .. n : q[i] >= 1 /\ q[i] < i }

\* Variant of Children: the children taken last to first.
ChildrenDescending(s, n) ==
  LET up == SortedSeq({ c \in 1 .. s.size : s.parent[c] = n })
  IN [i \in 1 .. Len(up) |-> up[Len(up) + 1 - i]]

Children(s, n) == SortedSeq({ c \in 1 .. s.size : s.parent[c] = n })

\* Object3D.updateMatrixWorld(true) followed by a read of matrixWorld.
RECURSIVE MatrixWorld(_, _)
MatrixWorld(s, n) ==
  IF s.parent[n] = 0 THEN s.node[n].tx ELSE MatrixWorld(s, s.parent[n]) + s.node[n].tx

\* Variant of UpdateMatrixWorld: the world transform is also baked into the
\* local transform of the node.
UpdateMatrixWorldBaked(s, n) ==
  [s EXCEPT !.world[n] = MatrixWorld(s, n),
            !.node[n].tx = MatrixWorld(s, n)]

\* Object3D.updateMatrixWorld(true) on node n: the cached matrixWorld of n becomes
\* the cached matrixWorld of its parent composed with its local transform, then
\* the same is done for the children.
RECURSIVE UpdateMatrixWorld(_, _), UpdateChildrenWorld(_, _)
UpdateMatrixWorld(s, n) ==
  UpdateChildrenWorld(
    [s EXCEPT !.world[n] =
       IF s.parent[n] = 0 THEN s.node[n].tx ELSE s.world[s.parent[n]] + s.node[n].tx],
    Children(s, n))

UpdateChildrenWorld(s, kids) ==
  IF kids = <<>> THEN s
  ELSE UpdateChildrenWorld(UpdateMatrixWorld(s, Head(kids)), Tail(kids))

\* A scene whose cached world transforms are current (it was rendered since its
\* last change), and one whose caches were never computed.
RenderedScene(n, p, k) ==
  LET s == [size |-> n, parent |-> p, node |-> k, world |-> [i \in 1 .. n |-> 0]]
  IN [s EXCEPT !.world = [i \in 1 .. n |-> MatrixWorld(s, i)]]

UnrenderedScene(n, p, k) == [size |-> n, parent |-> p, node |-> k, world |-> [i \in 1 .. n |-> 0]]

\* ------------------------------------------------------ numbers as text
Digits == <<"0", "1", "2", "3", "4", "5", "6", "7", "8", "9">>

\* Number.prototype.toString() / template interpolation of a non-negative integer.
RECURSIVE ToString10(_)
ToString10(n) ==
  IF n < 10 THEN <<Digits[n + 1]>>
  ELSE ToString10(n \div 10) \o <<Digits[(n % 10) + 1]>>

\* Number.prototype.toFixed(7) of an integer coordinate: the integer part and the
\* seven decimals, as the number of 10^-7 units.
RECURSIVE Pow10(_)
Pow10(n) == IF n = 0 THEN 1 ELSE 10 * Pow10(n - 1)

ToFixed(x) == x * Pow10(FixedDecimals)

\* --------------------------------------------------------------- state
VARIABLES
  scene,        \* the object passed to exportTo3MF
  pc,           \* position of the exportTo3MF call
  stack,        \* nodes whose collectComponents call is pending, next call first
  components,   \* ComponentInfo[]
  materials,    \* MaterialInfo[]
  zip,          \* the JSZip entries, in insertion order
  zipCalls,     \* number of zip.file calls made
  leafOf,       \* history: the scene node each component was built from
  blob,         \* <<>> or <<the entries of the returned archive>>
  other,        \* a second exportTo3MF call: its scene, position, locals and result
  modelGroup,   \* ModelExporter: the modelGroup prop, <<>> (null) or <<a scene>>
  stlUrl,       \* ModelExporter: <<>> ('') or <<what the URL points to>>
  objUrl,
  gltfUrl,
  the3mfUrl,
  gltfParses,   \* ModelExporter: the groups of the gltfExporter.parse calls under way
  exports,      \* ModelExporter: the exportTo3MF calls handleExport3MF awaits
  events,       \* history: the handlers and callbacks of ModelExporter that ran
  merged,       \* the merged serializer: processObject's scene, position and lists
  server,       \* svg-to-stl-server.js: requests, temp storage, handlers under way
  fileDrop,     \* FileDropZone: props, refs, the filename model and what was emitted
  renderer      \* ModelRenderer: props.shapes, suppressZFighting's result, shownShapes

\* The state of the exportTo3MF call followed step by step.
exportVars == <<scene, pc, stack, components, materials, zip, zipCalls, leafOf, blob>>

\* The state of the ModelExporter component.
uiVars == <<modelGroup, stlUrl, objUrl, gltfUrl, the3mfUrl, gltfParses, exports, events>>

\* The state outside the exportTo3MF call followed step by step.
outside == <<other, uiVars, merged, server, fileDrop, renderer>>

vars == <<exportVars, outside>>

\* ------------------------------------------------- collectComponents
\* Lines 82-89: the colour looked up for a mesh that has a material.
MaterialColour(material) ==
  IF material.color # <<>> THEN material.color[1] ELSE SetHex(DefaultGray)

SameColour(c, d) == c.r = d.r /\ c.g = d.g /\ c.b = d.b

\* Variant of FindMaterial: the colours are compared by object identity, and the
\* colour looked up is always a fresh object.
FindMaterialByReference(mats, color) == 0

\* Array.prototype.find, as the 1-based position of the first match (0: none).
FindMaterial(mats, color) ==
  IF \E i \in 1 .. Len(mats) : SameColour(mats[i].color, color)
  THEN CHOOSE i \in 1 .. Len(mats) :
         /\ SameColour(mats[i].color, color)
         /\ \A j \in 1 .. (i - 1) : ~SameColour(mats[j].color, color)
  ELSE 0

MaterialName(mesh, mats) ==
  IF mesh.name # "" THEN <<mesh.name, "_material">>
  ELSE <<"material_">> \o ToString10(Len(mats))

\* Variant of NewMaterial: the extruder is numbered from 0.
NewMaterialZeroBasedExtruder(mesh, mats, color) ==
  [id |-> Len(mats), color |-> color, name |-> MaterialName(mesh, mats), extruder |-> Len(mats)]

NewMaterial(mesh, mats, color) ==
  [id |-> Len(mats), color |-> color, name |-> MaterialName(mesh, mats), extruder |-> Len(mats) + 1]

\* Variant of RegisterMaterial: a mesh without a material is registered under the
\* default colour as well.
RegisterMaterialAlways(mesh, mats) ==
  LET color == IF mesh.material = <<>> THEN SetHex(DefaultGray) ELSE MaterialColour(mesh.material[1])
      found == FindMaterial(mats, color)
  IN IF found # 0 THEN [materials |-> mats, info |-> <<mats[found]>>]
     ELSE [materials |-> Append(mats, NewMaterial(mesh, mats, color)),
           info |-> <<NewMaterial(mesh, mats, color)>>]

\* Variant of RegisterMaterial: the materialInfo of a mesh whose colour is in the
\* table already is an object of its own, built as for a new colour but not pushed.
RegisterMaterialPrivateCopy(mesh, mats) ==
  IF mesh.material = <<>> THEN [materials |-> mats, info |-> <<>>]
  ELSE LET color == MaterialColour(mesh.material[1])
           found == FindMaterial(mats, color)
       IN IF found # 0 THEN [materials |-> mats, info |-> <<NewMaterial(mesh, mats, color)>>]
          ELSE [materials |-> Append(mats, NewMaterial(mesh, mats, color)),
                info |-> <<NewMaterial(mesh, mats, color)>>]

\* Lines 79-109: the material table after the mesh, and the mesh's materialInfo
\* (<<>> for null).
RegisterMaterial(mesh, mats) ==
  IF mesh.material = <<>> THEN [materials |-> mats, info |-> <<>>]
  ELSE LET color == MaterialColour(mesh.material[1])
           found == FindMaterial(mats, color)
       IN IF found # 0 THEN [materials |-> mats, info |-> <<mats[found]>>]
          ELSE [materials |-> Append(mats, NewMaterial(mesh, mats, color)),
                info |-> <<NewMaterial(mesh, mats, color)>>]

ComponentName(mesh, componentId) ==
  IF mesh.name # "" THEN <<mesh.name>> ELSE <<"Default-">> \o ToString10(componentId)

\* Lines 122-132: every vertex of the position attribute under matrixWorld.
WorldVertices(position, worldMatrix) ==
  [i \in 1 .. Len(position) |->
     Vtx(position[i].x + worldMatrix, position[i].y, position[i].z)]

\* BufferAttribute.getX(i) on the index array.
GetX(array, i) == IF i < Len(array) THEN array[i + 1] ELSE Undefined

\* Lines 137-143: the loop from i, three indices a step.
RECURSIVE IndexedTriangles(_, _)
IndexedTriangles(array, i) ==
  IF i < Len(array)
  THEN <<[v1 |-> GetX(array, i), v2 |-> GetX(array, i + 1), v3 |-> GetX(array, i + 2)]>>
       \o IndexedTriangles(array, i + 3)
  ELSE <<>>

\* Lines 147-153: the loop from i over a non-indexed geometry of count vertices.
RECURSIVE PlainTriangles(_, _)
PlainTriangles(count, i) ==
  IF i < count
  THEN <<[v1 |-> i, v2 |-> i + 1, v3 |-> i + 2]>> \o PlainTriangles(count, i + 3)
  ELSE <<>>

Triangles(geometry) ==
  IF geometry.index # <<>> THEN IndexedTriangles(geometry.index[1], 0)
  ELSE PlainTriangles(Len(geometry.position[1]), 0)

\* Variant of NewComponent: the id does not count the components collected so far.
NewComponentFixedId(s, n, comps, info) ==
  LET mesh == s.node[n]
      componentId == ComponentIdBase
  IN [id |-> componentId,
      vertices |-> WorldVertices(mesh.geometry.position[1], MatrixWorld(s, n)),
      triangles |-> Triangles(mesh.geometry),
      material |-> info,
      name |-> ComponentName(mesh, componentId)]

\* Lines 112-156: the component of a mesh that has a position attribute.
NewComponent(s, n, comps, info) ==
  LET mesh == s.node[n]
      componentId == ComponentIdBase + Len(comps)
  IN [id |-> componentId,
      vertices |-> WorldVertices(mesh.geometry.position[1], MatrixWorld(s, n)),
      triangles |-> Triangles(mesh.geometry),
      material |-> info,
      name |-> ComponentName(mesh, componentId)]

\* --------------------------------------------------- document builders
\* The literal '97' of the documents.
AssemblyIdText == ToString10(AssemblyId)

ObjectModelPath == <<"3D/Objects/object-">> \o AssemblyIdText \o <<".model">>

\* createMainModelXML, without the uuid attributes and the metadata block.
createMainModelXML(comps) ==
  [object |->
     [id |-> AssemblyIdText,
      type |-> "model",
      components |->
        [i \in 1 .. Len(comps) |->
           [path |-> <<"/">> \o ObjectModelPath, objectid |-> ToString10(comps[i].id)]]],
   build |->
     [item |-> [objectid |-> AssemblyIdText, transform |-> "1 0 0 0 1 0 0 0 1 0 0 0", printable |-> "1"]]]

\* createObjectModelXML, without the uuid attributes.
createObjectModelXML(comps) ==
  [i \in 1 .. Len(comps) |->
     [id |-> ToString10(comps[i].id),
      type |-> "model",
      vertices |->
        [j \in 1 .. Len(comps[i].vertices) |->
           [x |-> ToFixed(comps[i].vertices[j].x),
            y |-> ToFixed(comps[i].vertices[j].y),
            z |-> ToFixed(comps[i].vertices[j].z)]],
      triangles |-> comps[i].triangles]]

\* Variant of PartExtruder: the part carries the material id, which counts from 0.
PartExtruderMaterialId(comp) == IF comp.material # <<>> THEN comp.material[1].id ELSE 1

PartExtruder(comp) == IF comp.material # <<>> THEN comp.material[1].extruder ELSE 1

createModelSettingsXML(comps) ==
  [object |->
     [id |-> AssemblyIdText,
      parts |->
        [i \in 1 .. Len(comps) |->
           [id |-> ToString10(comps[i].id),
            name |-> comps[i].name,
            extruder |-> ToString10(PartExtruder(comps[i]))]]],
   model_instance |-> [object_id |-> AssemblyIdText],
   assemble_item |-> [object_id |-> AssemblyIdText]]

\* Variant of PadColours: an if in place of the while.
PadColoursOnce(colors) ==
  IF Len(colors) < MinFilaments THEN Append(colors, PaddingColour) ELSE colors

\* Lines 313-315: the padding loop.
RECURSIVE PadColours(_)
PadColours(colors) ==
  IF Len(colors) < MinFilaments THEN PadColours(Append(colors, PaddingColour)) ELSE colors

FilamentColours(mats) == PadColours([i \in 1 .. Len(mats) |-> rgbToHexColor(mats[i].color)])

createProjectSettingsConfig(mats) ==
  LET colors == FilamentColours(mats)
  IN [filament_colour |-> colors,
      filament_settings_id |-> [i \in 1 .. Len(colors) |-> "Bambu PLA Basic @BBL A1M"],
      filament_diameter |-> [i \in 1 .. Len(colors) |-> "1.75"],
      filament_is_support |-> [i \in 1 .. Len(colors) |-> "0"]]

\* ------------------------------------------------------------- archive
\* JSZip.file(name, data): a new entry, or the replacement of the entry of that name.
ZipFile(z, name, data) ==
  IF \E i \in 1 .. Len(z) : z[i].name = name
  THEN [i \in 1 .. Len(z) |-> IF z[i].name = name THEN [name |-> name, data |-> data] ELSE z[i]]
  ELSE Append(z, [name |-> name, data |-> data])

\* Variant of ArchivePaths: the settings folder in lower case.
ArchivePathsLowerCase ==
  << <<"[Content_Types].xml">>,
     <<"_rels/.rels">>,
     <<"3D/3dmodel.model">>,
     <<"3D/_rels/3dmodel.model.rels">>,
     ObjectModelPath,
     <<"metadata/model_settings.config">>,
     <<"metadata/project_settings.config">> >>

\* Lines 49-55: the paths of the zip.file calls, in call order.
ArchivePaths ==
  << <<"[Content_Types].xml">>,
     <<"_rels/.rels">>,
     <<"3D/3dmodel.model">>,
     <<"3D/_rels/3dmodel.model.rels">>,
     ObjectModelPath,
     <<"Metadata/model_settings.config">>,
     <<"Metadata/project_settings.config">> >>

\* Lines 43-55: the data of the zip.file calls, in call order.
ArchiveData(comps, mats) ==
  << [kind |-> "contentTypes"],
     [kind |-> "relationships"],
     [kind |-> "mainModel", doc |-> createMainModelXML(comps)],
     [kind |-> "objectRelationships"],
     [kind |-> "objectModel", doc |-> createObjectModelXML(comps)],
     [kind |-> "modelSettings", doc |-> createModelSettingsXML(comps)],
     [kind |-> "projectSettings", doc |-> createProjectSettingsConfig(mats)] >>

RECURSIVE ZipFiles(_, _, _, _)
ZipFiles(z, paths, data, i) ==
  IF i > Len(paths) THEN z
  ELSE ZipFiles(ZipFile(z, paths[i], data[i]), paths, data, i + 1)

\* ------------------------------------------------- the whole traversal
\* collectComponents run to its end from the pending calls stk: the components and
\* materials it leaves, and whether it threw.
RECURSIVE CollectAll(_, _, _, _)
CollectAll(s, stk, comps, mats) ==
  IF stk = <<>> THEN [threw |-> FALSE, components |-> comps, materials |-> mats]
  ELSE LET n == Head(stk)
           mesh == s.node[n]
       IN IF mesh.type # "Mesh" THEN CollectAll(s, Children(s, n) \o Tail(stk), comps, mats)
          ELSE LET reg == RegisterMaterial(mesh, mats)
               IN IF mesh.geometry.position = <<>>
                  THEN [threw |-> TRUE, components |-> comps, materials |-> reg.materials]
                  ELSE CollectAll(s, Children(s, n) \o Tail(stk),
                                  Append(comps, NewComponent(s, n, comps, reg.info)),
                                  reg.materials)

\* Variant of NewCall: the material table is the one of the first call (a table
\* kept at module level).
NewCallSharedTable(s, during) ==
  [scene |-> s, pc |-> "collect", components |-> <<>>, materials |-> materials, zip |-> <<>>,
   blob |-> <<>>, during |-> during]

\* Variant of NewCall: the component list is the one of the first call (a list
\* kept at module level).
NewCallSharedComponents(s, during) ==
  [scene |-> s, pc |-> "collect", components |-> components, materials |-> <<>>, zip |-> <<>>,
   blob |-> <<>>, during |-> during]

\* Lines 33-37: the locals of a call of exportTo3MF on s; during is history, the
\* position of the first call when this one was made.
NewCall(s, during) ==
  [scene |-> s, pc |-> "collect", components |-> <<>>, materials |-> <<>>, zip |-> <<>>,
   blob |-> <<>>, during |-> during]

\* Lines 40-58, up to the await: the call after its synchronous part.
RunSync(call) ==
  LET r == CollectAll(call.scene, <<1>>, call.components, call.materials)
  IN IF r.threw
     THEN [call EXCEPT !.pc = "rejected", !.components = r.components, !.materials = r.materials]
     ELSE [call EXCEPT !.pc = "generating",
                       !.components = r.components,
                       !.materials = r.materials,
                       !.zip = ZipFiles(call.zip, ArchivePaths,
                                        ArchiveData(r.components, r.materials), 1)]

\* No second call.
NoCall ==
  [scene |-> <<>>, pc |-> "none", components |-> <<>>, materials |-> <<>>, zip |-> <<>>,
   blob |-> <<>>, during |-> "none"]

\* A second call that was not made yet, with the scene it will export.
IdleCall(s) == [NoCall EXCEPT !.scene = s, !.pc = "idle"]

\* No server.
NoServer ==
  [inbox |-> <<>>, now |-> 0, temp |-> {}, posts |-> <<>>, responses |-> <<>>,
   downloads |-> <<>>, timers |-> <<>>, log |-> <<>>]

\* No ModelRenderer component.
NoRenderer == [shapes |-> <<>>, pc |-> "none", result |-> <<>>, shownShapes |-> <<>>]

\* No FileDropZone component.
NoFileDrop ==
  [accept |-> <<>>, maxSize |-> 0, dragEnterCount |-> 0, isGlobalDragging |-> FALSE,
   filename |-> <<>>, emitted |-> 0, calls |-> 0, last |-> <<>>, event |-> "none"]

\* No run of the merged serializer.
NoMerged ==
  [scene |-> <<>>, pc |-> "none", stack |-> <<>>, vertices |-> <<>>, triangles |-> <<>>,
   materials |-> <<>>, leaves |-> <<>>]

\* No ModelExporter component.
NoUI ==
  /\ modelGroup = <<>>
  /\ stlUrl = <<>>
  /\ objUrl = <<>>
  /\ gltfUrl = <<>>
  /\ the3mfUrl = <<>>
  /\ gltfParses = <<>>
  /\ exports = <<>>
  /\ events = <<>>

\* ------------------------------------------------------------- actions
Init ==
  /\ \E n \in Nodes :
       \E p \in Parents(n) :
         \E k \in [1 .. n -> NodeKinds] :
           scene = RenderedScene(n, p, k)
  /\ pc = "collect"
  /\ stack = <<1>>
  /\ components = <<>>
  /\ materials = <<>>
  /\ zip = <<>>
  /\ zipCalls = 0
  /\ leafOf = <<>>
  /\ blob = <<>>
  /\ other = NoCall
  /\ NoUI
  /\ renderer = NoRenderer
  /\ fileDrop = NoFileDrop
  /\ merged = NoMerged
  /\ server = NoServer

\* collectComponents on a node that is not a mesh: only the recursion (lines 160-162).
CollectGroup ==
  /\ pc = "collect"
  /\ stack # <<>>
  /\ scene.node[Head(stack)].type # "Mesh"
  /\ scene' = UpdateMatrixWorld(scene, Head(stack))
  /\ stack' = Children(scene, Head(stack)) \o Tail(stack)
  /\ UNCHANGED <<pc, components, materials, zip, zipCalls, leafOf, blob>>
  /\ UNCHANGED outside

\* collectComponents on a mesh that has a position attribute (lines 72-162).
CollectMesh ==
  /\ pc = "collect"
  /\ stack # <<>>
  /\ scene.node[Head(stack)].type = "Mesh"
  /\ scene.node[Head(stack)].geometry.position # <<>>
  /\ LET reg == RegisterMaterial(scene.node[Head(stack)], materials)
     IN /\ materials' = reg.materials
        /\ components' = Append(components, NewComponent(scene, Head(stack), components, reg.info))
  /\ leafOf' = Append(leafOf, Head(stack))
  /\ scene' = UpdateMatrixWorld(scene, Head(stack))
  /\ stack' = Children(scene, Head(stack)) \o Tail(stack)
  /\ UNCHANGED <<pc, zip, zipCalls, blob>>
  /\ UNCHANGED outside

\* collectComponents on a mesh without a position attribute: the material is
\* handled (lines 79-109), then positionAttr.count at line 123 throws a TypeError,
\* which rejects the promise of exportTo3MF.
CollectThrow ==
  /\ pc = "collect"
  /\ stack # <<>>
  /\ scene.node[Head(stack)].type = "Mesh"
  /\ scene.node[Head(stack)].geometry.position = <<>>
  /\ materials' = RegisterMaterial(scene.node[Head(stack)], materials).materials
  /\ scene' = UpdateMatrixWorld(scene, Head(stack))
  /\ pc' = "rejected"
  /\ UNCHANGED <<stack, components, zip, zipCalls, leafOf, blob>>
  /\ UNCHANGED outside

\* Lines 43-58, up to the await: the documents are built and added to the archive.
Package ==
  /\ pc = "collect"
  /\ stack = <<>>
  /\ zip' = ZipFiles(zip, ArchivePaths, ArchiveData(components, materials), 1)
  /\ zipCalls' = zipCalls + Len(ArchivePaths)
  /\ pc' = "generating"
  /\ UNCHANGED <<scene, stack, components, materials, leafOf, blob>>
  /\ UNCHANGED outside

\* zip.generateAsync resolves: exportTo3MF returns the blob.
GenerateResolve ==
  /\ pc = "generating"
  /\ blob' = <<zip>>
  /\ pc' = "done"
  /\ UNCHANGED <<scene, stack, components, materials, zip, zipCalls, leafOf>>
  /\ UNCHANGED outside

\* zip.generateAsync rejects: so does exportTo3MF.
GenerateReject ==
  /\ pc = "generating"
  /\ pc' = "rejected"
  /\ UNCHANGED <<scene, stack, components, materials, zip, zipCalls, leafOf, blob>>
  /\ UNCHANGED outside

Next ==
  \/ CollectGroup
  \/ CollectMesh
  \/ CollectThrow
  \/ Package
  \/ GenerateResolve
  \/ GenerateReject

\* The nodes the deeper trees are built from.
TreeKinds ==
  { GroupNode(0),
    MeshNode("B", 10, Coloured(Orange), SquareGeom),
    MeshNode("", 10, NoMaterial, SquareGeom),
    MeshNode("", 0, Coloured(Orange), NoPositionGeom) }

\* An export of a scene of up to MaxTreeNodes nodes that was never rendered.
InitTree ==
  /\ \E n \in 1 .. MaxTreeNodes :
       \E p \in Parents(n) :
         \E k \in [1 .. n -> TreeKinds] :
           scene = UnrenderedScene(n, p, k)
  /\ pc = "collect"
  /\ stack = <<1>>
  /\ components = <<>>
  /\ materials = <<>>
  /\ zip = <<>>
  /\ zipCalls = 0
  /\ leafOf = <<>>
  /\ blob = <<>>
  /\ other = NoCall
  /\ NoUI
  /\ renderer = NoRenderer
  /\ fileDrop = NoFileDrop
  /\ merged = NoMerged
  /\ server = NoServer

SpecTree == InitTree /\ [][Next]_vars

\* -------------------------------------------------- two calls
\* The nodes the groups given to ModelExporter are built from.
CallKinds ==
  { GroupNode(0),
    MeshNode("A", 0, Coloured(Orange), SquareGeom),
    MeshNode("", 0, Coloured(Gray), TriangleGeom),
    MeshNode("", 10, NoMaterial, SquareGeom),
    MeshNode("", 0, Coloured(Orange), NoPositionGeom) }

\* The nodes of the scenes of two calls: a group, two colours, a mesh that throws.
TwoCallKinds ==
  { GroupNode(0),
    MeshNode("A", 0, Coloured(Orange), SquareGeom),
    MeshNode("", 10, Coloured(Gray), TriangleGeom),
    MeshNode("", 0, Coloured(Orange), NoPositionGeom) }

InitTwo ==
  /\ \E n \in 1 .. MaxCallNodes :
       \E p \in Parents(n) :
         \E k \in [1 .. n -> TwoCallKinds] :
           scene = RenderedScene(n, p, k)
  /\ \E n \in 1 .. MaxCallNodes :
       \E p \in Parents(n) :
         \E k \in [1 .. n -> TwoCallKinds] :
           other = IdleCall(RenderedScene(n, p, k))
  /\ pc = "collect"
  /\ stack = <<1>>
  /\ components = <<>>
  /\ materials = <<>>
  /\ zip = <<>>
  /\ zipCalls = 0
  /\ leafOf = <<>>
  /\ blob = <<>>
  /\ NoUI
  /\ renderer = NoRenderer
  /\ fileDrop = NoFileDrop
  /\ merged = NoMerged
  /\ server = NoServer

\* No synchronous part of the first call is under way: it has not begun, or it
\* is suspended at the await, or it is over.
FirstCallNotRunning == pc # "collect" \/ stack = <<1>>

\* The second call is made and runs up to its await.
OtherStart ==
  /\ FirstCallNotRunning
  /\ other.pc = "idle"
  /\ other' = RunSync(NewCall(other.scene, pc))
  /\ UNCHANGED <<exportVars, uiVars, merged, server, fileDrop, renderer>>

\* zip.generateAsync of the second call resolves.
OtherResolve ==
  /\ FirstCallNotRunning
  /\ other.pc = "generating"
  /\ other' = [other EXCEPT !.pc = "done", !.blob = <<other.zip>>]
  /\ UNCHANGED <<exportVars, uiVars, merged, server, fileDrop, renderer>>

\* zip.generateAsync of the second call rejects.
OtherReject ==
  /\ FirstCallNotRunning
  /\ other.pc = "generating"
  /\ other' = [other EXCEPT !.pc = "rejected"]
  /\ UNCHANGED <<exportVars, uiVars, merged, server, fileDrop, renderer>>

NextTwo ==
  \/ CollectGroup
  \/ CollectMesh
  \/ CollectThrow
  \/ Package
  \/ GenerateResolve
  \/ GenerateReject
  \/ OtherStart
  \/ OtherResolve
  \/ OtherReject

SpecTwo == InitTwo /\ [][NextTwo]_vars

\* -------------------------------------------------- ModelExporter.vue
\* The groups the component is given: one node of each kind.
UIGroups == { RenderedScene(1, <<0>>, <<k>>) : k \in CallKinds }

\* The sequence without its i-th element.
RemoveAt(seq, i) == SubSeq(seq, 1, i - 1) \o SubSeq(seq, i + 1, Len(seq))

\* What the exporters of three.js return for a group: their output is decided by
\* the library, so it is kept as the format and the group it was made of.
LibraryResult(format, group) == [format |-> format, of |-> group]

\* Line 84: the export buttons are rendered.
ButtonsShown == stlUrl = <<>> /\ objUrl = <<>> /\ gltfUrl = <<>> /\ the3mfUrl = <<>>

\* The number of exports started so far.
Started == Len(SelectSeq(events, LAMBDA e : e \in {"stl", "obj", "gltf", "3mf"}))

InitUI ==
  /\ modelGroup \in {<<>>} \cup { <<g>> : g \in UIGroups }
  /\ stlUrl = <<>>
  /\ objUrl = <<>>
  /\ gltfUrl = <<>>
  /\ the3mfUrl = <<>>
  /\ gltfParses = <<>>
  /\ exports = <<>>
  /\ events = <<>>
  /\ renderer = NoRenderer
  /\ fileDrop = NoFileDrop
  /\ merged = NoMerged
  /\ server = NoServer
  /\ other = NoCall
  /\ scene = <<>>
  /\ pc = "none"
  /\ stack = <<>>
  /\ components = <<>>
  /\ materials = <<>>
  /\ zip = <<>>
  /\ zipCalls = 0
  /\ leafOf = <<>>
  /\ blob = <<>>

\* Lines 22-33.
handleExportSTL ==
  /\ ButtonsShown
  /\ Started < MaxExports
  /\ modelGroup # <<>>
  /\ stlUrl' = <<LibraryResult("stl", modelGroup[1])>>
  /\ events' = Append(events, "stl")
  /\ UNCHANGED <<modelGroup, objUrl, gltfUrl, the3mfUrl, gltfParses, exports, exportVars, other, merged, server, fileDrop, renderer>>

\* Lines 35-44.
handleExportOBJ ==
  /\ ButtonsShown
  /\ Started < MaxExports
  /\ modelGroup # <<>>
  /\ objUrl' = <<LibraryResult("obj", modelGroup[1])>>
  /\ events' = Append(events, "obj")
  /\ UNCHANGED <<modelGroup, stlUrl, gltfUrl, the3mfUrl, gltfParses, exports, exportVars, other, merged, server, fileDrop, renderer>>

\* Variant of handleExportGLTF: the link is set at the click, before the exporter
\* has called back.
handleExportGLTFEager ==
  /\ ButtonsShown
  /\ Started < MaxExports
  /\ modelGroup # <<>>
  /\ gltfParses' = Append(gltfParses, modelGroup[1])
  /\ gltfUrl' = <<LibraryResult("gltf", modelGroup[1])>>
  /\ events' = Append(events, "gltf")
  /\ UNCHANGED <<modelGroup, stlUrl, objUrl, the3mfUrl, exports, exportVars, other, merged, server, fileDrop, renderer>>

\* Lines 46-59, the call of gltfExporter.parse: the callbacks run later.
handleExportGLTF ==
  /\ ButtonsShown
  /\ Started < MaxExports
  /\ modelGroup # <<>>
  /\ gltfParses' = Append(gltfParses, modelGroup[1])
  /\ events' = Append(events, "gltf")
  /\ UNCHANGED <<modelGroup, stlUrl, objUrl, gltfUrl, the3mfUrl, exports, exportVars, other, merged, server, fileDrop, renderer>>

\* Lines 52-54: the exporter calls back with its result.
GltfDone ==
  \E i \in DOMAIN gltfParses :
    /\ gltfUrl' = <<LibraryResult("gltf", gltfParses[i])>>
    /\ gltfParses' = RemoveAt(gltfParses, i)
    /\ events' = Append(events, "gltf done")
    /\ UNCHANGED <<modelGroup, stlUrl, objUrl, the3mfUrl, exports, exportVars, other, merged, server, fileDrop, renderer>>

\* Lines 54-56: the exporter reports an error, which is only logged.
GltfError ==
  \E i \in DOMAIN gltfParses :
    /\ gltfParses' = RemoveAt(gltfParses, i)
    /\ events' = Append(events, "gltf error")
    /\ UNCHANGED <<modelGroup, stlUrl, objUrl, gltfUrl, the3mfUrl, exports, exportVars, other, merged, server, fileDrop, renderer>>

\* Lines 61-66, up to the await: exportTo3MF runs up to its own await.
handleExport3MF ==
  /\ ButtonsShown
  /\ Started < MaxExports
  /\ modelGroup # <<>>
  /\ exports' = Append(exports, RunSync(NewCall(modelGroup[1], "none")))
  /\ events' = Append(events, "3mf")
  /\ UNCHANGED <<modelGroup, stlUrl, objUrl, gltfUrl, the3mfUrl, gltfParses, exportVars, other, merged, server, fileDrop, renderer>>

\* Lines 66-67 after the await: exportTo3MF resolved with its blob.
Resume3MF ==
  \E i \in DOMAIN exports :
    /\ exports[i].pc = "generating"
    /\ LET result == [exports[i] EXCEPT !.pc = "done", !.blob = <<exports[i].zip>>].blob
       IN the3mfUrl' = <<result[1]>>
    /\ exports' = RemoveAt(exports, i)
    /\ events' = Append(events, "3mf done")
    /\ UNCHANGED <<modelGroup, stlUrl, objUrl, gltfUrl, gltfParses, exportVars, other, merged, server, fileDrop, renderer>>

\* Variant of Reject3MF: the entries added before the failure are offered as the
\* download.
Reject3MFPartial ==
  \E i \in DOMAIN exports :
    /\ exports[i].pc \in {"generating", "rejected"}
    /\ the3mfUrl' = <<exports[i].zip>>
    /\ exports' = RemoveAt(exports, i)
    /\ events' = Append(events, "3mf failed")
    /\ UNCHANGED <<modelGroup, stlUrl, objUrl, gltfUrl, gltfParses, exportVars, other, merged, server, fileDrop, renderer>>

\* Line 66: exportTo3MF rejected, in collectComponents or in generateAsync; the
\* await throws and line 67 is not reached.
Reject3MF ==
  \E i \in DOMAIN exports :
    /\ exports[i].pc \in {"generating", "rejected"}
    /\ exports' = RemoveAt(exports, i)
    /\ events' = Append(events, "3mf failed")
    /\ UNCHANGED <<modelGroup, stlUrl, objUrl, gltfUrl, the3mfUrl, gltfParses, exportVars, other, merged, server, fileDrop, renderer>>

\* Lines 99-134: the click on a download link empties its URL.
DownloadSTL ==
  /\ stlUrl # <<>>
  /\ stlUrl' = <<>>
  /\ events' = Append(events, "download")
  /\ UNCHANGED <<modelGroup, objUrl, gltfUrl, the3mfUrl, gltfParses, exports, exportVars, other, merged, server, fileDrop, renderer>>

DownloadOBJ ==
  /\ objUrl # <<>>
  /\ objUrl' = <<>>
  /\ events' = Append(events, "download")
  /\ UNCHANGED <<modelGroup, stlUrl, gltfUrl, the3mfUrl, gltfParses, exports, exportVars, other, merged, server, fileDrop, renderer>>

DownloadGLTF ==
  /\ gltfUrl # <<>>
  /\ gltfUrl' = <<>>
  /\ events' = Append(events, "download")
  /\ UNCHANGED <<modelGroup, stlUrl, objUrl, the3mfUrl, gltfParses, exports, exportVars, other, merged, server, fileDrop, renderer>>

Download3MF ==
  /\ the3mfUrl # <<>>
  /\ the3mfUrl' = <<>>
  /\ events' = Append(events, "download")
  /\ UNCHANGED <<modelGroup, stlUrl, objUrl, gltfUrl, gltfParses, exports, exportVars, other, merged, server, fileDrop, renderer>>

\* Lines 70-75, behind the close button of line 135.
clearUrls ==
  /\ ~ButtonsShown
  /\ stlUrl' = <<>>
  /\ objUrl' = <<>>
  /\ gltfUrl' = <<>>
  /\ the3mfUrl' = <<>>
  /\ events' = Append(events, "close")
  /\ UNCHANGED <<modelGroup, gltfParses, exports, exportVars, other, merged, server, fileDrop, renderer>>

NextUI ==
  \/ handleExportSTL
  \/ handleExportOBJ
  \/ handleExportGLTF
  \/ GltfDone
  \/ GltfError
  \/ handleExport3MF
  \/ Resume3MF
  \/ Reject3MF
  \/ DownloadSTL
  \/ DownloadOBJ
  \/ DownloadGLTF
  \/ Download3MF
  \/ clearUrls

SpecUI == InitUI /\ [][NextUI]_vars

\* -------------------------------------------------- the merged serializer
\* processObject of the single-object variant: one vertex list and one triangle
\* list for the whole scene.

\* vertexOffset + index: an index read past the end is undefined and the sum NaN.
Rebase(vertexOffset, index) == IF index = Undefined THEN Undefined ELSE vertexOffset + index

\* Lines 133-162: the material table after the mesh and the mesh's materialId
\* (<<>> for undefined); the entries have no extruder.
MergedMaterial(mesh, mats) ==
  IF mesh.material = <<>> THEN [materials |-> mats, materialId |-> <<>>]
  ELSE LET color == MaterialColour(mesh.material[1])
           found == FindMaterial(mats, color)
       IN IF found # 0 THEN [materials |-> mats, materialId |-> <<mats[found].id>>]
          ELSE [materials |-> Append(mats, [id |-> Len(mats), color |-> color,
                                            name |-> MaterialName(mesh, mats)]),
                materialId |-> <<Len(mats)>>]

\* Lines 177-199: the triangles of the mesh, re-based by vertexOffset, with the
\* pid when the mesh has a material; the loops are those of collectComponents.
MergedTriangles(geometry, vertexOffset, materialId) ==
  LET local == Triangles(geometry)
  IN [t \in 1 .. Len(local) |->
        [v1 |-> Rebase(vertexOffset, local[t].v1),
         v2 |-> Rebase(vertexOffset, local[t].v2),
         v3 |-> Rebase(vertexOffset, local[t].v3),
         pid |-> materialId]]

\* processObject on a convertible scene, before the call on the root.
InitMerged ==
  /\ \E n \in Nodes :
       \E p \in Parents(n) :
         \E k \in [1 .. n -> NodeKinds] :
           merged = [scene |-> RenderedScene(n, p, k), pc |-> "process", stack |-> <<1>>,
                     vertices |-> <<>>, triangles |-> <<>>, materials |-> <<>>,
                     leaves |-> <<>>]
  /\ server = NoServer
  /\ NoUI
  /\ renderer = NoRenderer
  /\ fileDrop = NoFileDrop
  /\ other = NoCall
  /\ scene = <<>>
  /\ pc = "none"
  /\ stack = <<>>
  /\ components = <<>>
  /\ materials = <<>>
  /\ zip = <<>>
  /\ zipCalls = 0
  /\ leafOf = <<>>
  /\ blob = <<>>

\* processObject on a node that is not a mesh: only the recursion (lines 202-205).
ProcessGroup ==
  /\ merged.pc = "process"
  /\ merged.stack # <<>>
  /\ merged.scene.node[Head(merged.stack)].type # "Mesh"
  /\ merged' = [merged EXCEPT
                  !.scene = UpdateMatrixWorld(merged.scene, Head(merged.stack)),
                  !.stack = Children(merged.scene, Head(merged.stack)) \o Tail(merged.stack)]
  /\ UNCHANGED <<exportVars, other, uiVars, server, fileDrop, renderer>>

\* processObject on a mesh that has a position attribute (lines 125-205); leaves
\* is history: the node, the vertexOffset and the vertex count of each mesh.
ProcessMesh ==
  /\ merged.pc = "process"
  /\ merged.stack # <<>>
  /\ merged.scene.node[Head(merged.stack)].type = "Mesh"
  /\ merged.scene.node[Head(merged.stack)].geometry.position # <<>>
  /\ LET n == Head(merged.stack)
         mesh == merged.scene.node[n]
         vertexOffset == Len(merged.vertices)
         reg == MergedMaterial(mesh, merged.materials)
         world == UpdateMatrixWorld(merged.scene, n)
     IN merged' = [merged EXCEPT
          !.scene = world,
          !.materials = reg.materials,
          !.vertices = @ \o WorldVertices(mesh.geometry.position[1], world.world[n]),
          !.triangles = @ \o MergedTriangles(mesh.geometry, vertexOffset, reg.materialId),
          !.leaves = Append(@, [node |-> n, vertexOffset |-> vertexOffset,
                                count |-> Len(mesh.geometry.position[1])]),
          !.stack = Children(merged.scene, n) \o Tail(merged.stack)]
  /\ UNCHANGED <<exportVars, other, uiVars, server, fileDrop, renderer>>

\* processObject on a mesh without a position attribute: the material is handled,
\* then positionAttr.count at line 166 throws a TypeError.
ProcessThrow ==
  /\ merged.pc = "process"
  /\ merged.stack # <<>>
  /\ merged.scene.node[Head(merged.stack)].type = "Mesh"
  /\ merged.scene.node[Head(merged.stack)].geometry.position = <<>>
  /\ merged' = [merged EXCEPT
                  !.scene = UpdateMatrixWorld(merged.scene, Head(merged.stack)),
                  !.materials = MergedMaterial(merged.scene.node[Head(merged.stack)],
                                               merged.materials).materials,
                  !.pc = "thrown"]
  /\ UNCHANGED <<exportVars, other, uiVars, server, fileDrop, renderer>>

\* The call on the root returns.
ProcessReturn ==
  /\ merged.pc = "process"
  /\ merged.stack = <<>>
  /\ merged' = [merged EXCEPT !.pc = "done"]
  /\ UNCHANGED <<exportVars, other, uiVars, server, fileDrop, renderer>>

NextMerged ==
  \/ ProcessGroup
  \/ ProcessMesh
  \/ ProcessThrow
  \/ ProcessReturn

SpecMerged == InitMerged /\ [][NextMerged]_vars

\* -------------------------------------------------- svg-to-stl-server.js
\* Numbers are naturals; NaN is the value below.
NaN == -2

\* A request parameter is <<>> (not provided) or <<its text, a sequence of characters>>.
DigitValue(c) == CHOOSE d \in 0 .. 9 : Digits[d + 1] = c

IsDigit(c) == \E d \in 0 .. 9 : Digits[d + 1] = c

\* The longest prefix of digits of the text.
RECURSIVE DigitPrefix(_)
DigitPrefix(text) ==
  IF text # <<>> /\ IsDigit(Head(text)) THEN <<Head(text)>> \o DigitPrefix(Tail(text)) ELSE <<>>

RECURSIVE DigitsValue(_)
DigitsValue(ds) ==
  IF ds = <<>> THEN 0 ELSE 10 * DigitsValue(SubSeq(ds, 1, Len(ds) - 1)) + DigitValue(ds[Len(ds)])

\* parseFloat on a parameter: undefined and a text that does not start with a
\* number give NaN; trailing characters are ignored.
ParseFloat(param) ==
  IF param = <<>> THEN NaN
  ELSE IF DigitPrefix(param[1]) = <<>> THEN NaN
  ELSE DigitsValue(DigitPrefix(param[1]))

\* a || b on numbers: NaN and 0 are falsy.
OrElse(a, b) == IF a # NaN /\ a # 0 THEN a ELSE b

\* Lines 70-71.
defaultDepth == 2
defaultSize == 37

\* Lines 194-195.
ParameterUsed(bodyParam, queryParam, default) ==
  OrElse(OrElse(ParseFloat(bodyParam), ParseFloat(queryParam)), default)

\* A file name is the sequence of its parts between the dots: "logo.min.svg" is
\* <<"logo", "min", "svg">>.
EndsWithSvg(originalname) == Len(originalname) > 1 /\ originalname[Len(originalname)] = "svg"

\* Line 239: originalname.replace(/\.[^/.]+$/, '').
StripExtension(originalname) ==
  IF Len(originalname) > 1 /\ originalname[Len(originalname)] # ""
  THEN SubSeq(originalname, 1, Len(originalname) - 1)
  ELSE originalname

\* Line 239: `${base}_${timestamp}.stl`, kept as its two varying parts.
StlFilename(originalname, timestamp) ==
  [base |-> StripExtension(originalname), timestamp |-> timestamp]

\* Line 255, for the one protocol and host of the server.
DownloadUrl(filename) == <<"http://localhost:3001/api/download/", filename>>

\* The content of an uploaded file as the handler sees it: whether the text is
\* empty, whether it includes '<svg', and what the three.js loader and exporter
\* make of it (the shapes parsed, or a throw; the bytes of the STL).
Content(empty, svgTag, throws, shapes, stlBytes) ==
  [empty |-> empty, svgTag |-> svgTag, throws |-> throws, shapes |-> shapes, stlBytes |-> stlBytes]

\* Lines 222-235: the shapes and the STL of the conversion; the exporter called
\* with binary: true returns a DataView, which has a byteLength and no length.
Convert(content, depth, size) ==
  [shapes |-> content.shapes,
   stlData |-> [type |-> "DataView", byteLength |-> content.stlBytes,
                depth |-> depth, size |-> size, shapes |-> content.shapes]]

\* stlData.length (line 262): undefined on a DataView, and JSON.stringify leaves
\* an undefined field out.
LengthOf(data) == IF data.type = "DataView" THEN <<>> ELSE <<data.byteLength>>

\* Variant of ErrorJson: the error is sent with the default status.
ErrorJsonStatusOk(status, error, details) ==
  [status |-> 200,
   body |-> [success |-> <<>>, downloadUrl |-> <<>>, filename |-> <<>>, fileSize |-> <<>>,
             shapes |-> <<>>, parameters |-> <<>>, error |-> <<error>>, details |-> details]]

\* The JSON of a response: each field is <<>> (absent) or <<value>>; a mime type
\* is <<type, subtype>>.
ErrorJson(status, error, details) ==
  [status |-> status,
   body |-> [success |-> <<>>, downloadUrl |-> <<>>, filename |-> <<>>, fileSize |-> <<>>,
             shapes |-> <<>>, parameters |-> <<>>, error |-> <<error>>, details |-> details]]

\* Lines 257-268.
SuccessJson(filename, stlData, shapes, depth, size) ==
  [status |-> 200,
   body |-> [success |-> <<TRUE>>, downloadUrl |-> <<DownloadUrl(filename)>>,
             filename |-> <<filename>>, fileSize |-> LengthOf(stlData),
             shapes |-> <<shapes>>, parameters |-> <<[depth |-> depth, size |-> size]>>,
             error |-> <<>>, details |-> <<>>]]

\* Lines 187-229: the error response of a request that is turned down, <<>> for
\* a request that is converted.
Rejection(req) ==
  IF req.files = <<>> THEN <<ErrorJson(400, "No SVG file provided", <<>>)>>
  ELSE LET file == req.files[1]
       IN IF ~(file.mimetype = <<"image", "svg+xml">> \/ EndsWithSvg(file.originalname))
          THEN IF file.mimetype[1] = "image"
               THEN <<ErrorJson(400, "Bitmap images not supported in this server implementation. Please provide an SVG file.", <<>>)>>
               ELSE <<ErrorJson(400, "Unsupported file type", <<>>)>>
          ELSE IF file.content.empty \/ ~file.content.svgTag
               THEN <<ErrorJson(400, "Invalid SVG file", <<>>)>>
          ELSE IF file.content.throws
               THEN <<ErrorJson(500, "Internal server error", <<"message">>)>>
          ELSE IF file.content.shapes = 0
               THEN <<ErrorJson(400, "No valid shapes found in SVG", <<>>)>>
          ELSE <<>>

\* Largest value of the clock (Date.now(), in milliseconds from the start).
MaxClock == 2

\* Largest number of uploads and of download requests in one behaviour of
\* SpecDownload.
MaxUploads == 2
MaxDownloads == 2

\* The texts of a depth or size parameter.
ParamTexts == {<<"0">>, <<"5">>, <<"1", "2", "m", "m">>, <<"x">>}

Params == {<<>>} \cup { <<t>> : t \in ParamTexts }

\* The contents of uploaded files: empty, no '<svg', no shapes, a loader that
\* throws, and two drawings.
Contents ==
  { Content(TRUE, FALSE, FALSE, 0, 0),
    Content(FALSE, FALSE, FALSE, 0, 0),
    Content(FALSE, TRUE, FALSE, 0, 0),
    Content(FALSE, TRUE, TRUE, 0, 0),
    Content(FALSE, TRUE, FALSE, 1, 134),
    Content(FALSE, TRUE, FALSE, 2, 684) }

Uploads ==
  [mimetype : {<<"image", "svg+xml">>, <<"image", "png">>, <<"text", "plain">>},
   originalname : {<<"logo", "svg">>, <<"photo", "png">>, <<"notes">>},
   content : Contents]

\* The file of id.
TempFile(temp, name) == CHOOSE f \in temp : f.name = name

\* fs.existsSync.
Exists(temp, name) == \E f \in temp : f.name = name

\* fs.writeFileSync: the file is created or replaced.
WriteFile(temp, name, data) == { f \in temp : f.name # name } \cup {[name |-> name, data |-> data]}

\* fs.unlinkSync of an existing file.
Unlink(temp, name) == { f \in temp : f.name # name }

\* One request with any upload and any parameters.
InitPost ==
  /\ \E files \in {<<>>} \cup { <<u>> : u \in Uploads } :
       \E bd, qd, bs, qs \in Params :
         server = [NoServer EXCEPT
                     !.now = 1,
                     !.inbox = <<[files |-> files, body |-> [depth |-> bd, size |-> bs],
                                  query |-> [depth |-> qd, size |-> qs]]>>]
  /\ NoUI
  /\ renderer = NoRenderer
  /\ fileDrop = NoFileDrop
  /\ merged = NoMerged
  /\ other = NoCall
  /\ scene = <<>>
  /\ pc = "none"
  /\ stack = <<>>
  /\ components = <<>>
  /\ materials = <<>>
  /\ zip = <<>>
  /\ zipCalls = 0
  /\ leafOf = <<>>
  /\ blob = <<>>

\* Date.now() moves on.
Tick ==
  /\ server.now < MaxClock
  /\ server' = [server EXCEPT !.now = @ + 1]
  /\ UNCHANGED <<exportVars, other, uiVars, merged, fileDrop, renderer>>

\* Lines 185-243: the handler up to its first await; a request that is turned
\* down is answered here.
PostSvgToStl ==
  /\ server.inbox # <<>>
  /\ LET req == Head(server.inbox)
         depth == ParameterUsed(req.body.depth, req.query.depth, defaultDepth)
         size == ParameterUsed(req.body.size, req.query.size, defaultSize)
     IN IF Rejection(req) # <<>>
        THEN server' = [server EXCEPT
               !.inbox = Tail(@),
               !.responses = Append(@, [req |-> req, status |-> Rejection(req)[1].status,
                                        body |-> Rejection(req)[1].body])]
        ELSE LET made == Convert(req.files[1].content, depth, size)
             IN server' = [server EXCEPT
                  !.inbox = Tail(@),
                  !.posts = Append(@, [req |-> req, depth |-> depth, size |-> size,
                                       shapes |-> made.shapes, stlData |-> made.stlData,
                                       filename |-> StlFilename(req.files[1].originalname,
                                                                server.now)])]
  /\ UNCHANGED <<exportVars, other, uiVars, merged, fileDrop, renderer>>

\* Lines 246-268, after the awaits: the file is written and the request answered.
PostWrite ==
  /\ \E i \in DOMAIN server.posts :
       LET post == server.posts[i]
           answer == SuccessJson(post.filename, post.stlData, post.shapes, post.depth, post.size)
       IN server' = [server EXCEPT
            !.posts = RemoveAt(@, i),
            !.temp = WriteFile(@, post.filename, post.stlData),
            !.responses = Append(@, [req |-> post.req, status |-> answer.status,
                                     body |-> answer.body])]
  /\ UNCHANGED <<exportVars, other, uiVars, merged, fileDrop, renderer>>

NextPost ==
  \/ Tick
  \/ PostSvgToStl
  \/ PostWrite

SpecPost == InitPost /\ [][NextPost]_vars

\* Two uploads of the same original name with different drawings.
SameNameUploads ==
  { [files |-> <<[mimetype |-> <<"image", "svg+xml">>, originalname |-> <<"logo", "svg">>,
                  content |-> c]>>,
     body |-> [depth |-> <<>>, size |-> <<>>],
     query |-> [depth |-> <<>>, size |-> <<>>]] :
    c \in {Content(FALSE, TRUE, FALSE, 1, 134), Content(FALSE, TRUE, FALSE, 2, 684)} }

\* The sequences of up to n elements of S.
RECURSIVE SeqsUpTo(_, _)
SeqsUpTo(S, n) ==
  IF n = 0 THEN {<<>>}
  ELSE SeqsUpTo(S, n - 1) \cup { Append(q, x) : q \in SeqsUpTo(S, n - 1), x \in S }

InitDownload ==
  /\ \E inbox \in SeqsUpTo(SameNameUploads, MaxUploads) :
       server = [NoServer EXCEPT !.now = 1, !.inbox = inbox]
  /\ NoUI
  /\ renderer = NoRenderer
  /\ fileDrop = NoFileDrop
  /\ merged = NoMerged
  /\ other = NoCall
  /\ scene = <<>>
  /\ pc = "none"
  /\ stack = <<>>
  /\ components = <<>>
  /\ materials = <<>>
  /\ zip = <<>>
  /\ zipCalls = 0
  /\ leafOf = <<>>
  /\ blob = <<>>

\* The file names a client can ask for: those of the responses, and one that was
\* never written.
KnownFilenames ==
  { server.responses[i].body.filename[1] :
      i \in { j \in DOMAIN server.responses : server.responses[j].body.filename # <<>> } }
  \cup {[base |-> <<"nofile">>, timestamp |-> 0]}

\* The number of download requests made so far.
Requested == Len(SelectSeq(server.log, LAMBDA e : e.kind \in {"404", "accepted"}))

\* Lines 314-332: the handler up to the call of res.sendFile, which opens the
\* file later.
GetDownload ==
  /\ Requested < MaxDownloads
  /\ \E filename \in KnownFilenames :
       IF ~Exists(server.temp, filename)
       THEN server' = [server EXCEPT !.log = Append(@, [kind |-> "404", name |-> filename])]
       ELSE server' = [server EXCEPT
              !.log = Append(@, [kind |-> "accepted", name |-> filename]),
              !.downloads = Append(@, [name |-> filename, pc |-> "opening", data |-> <<>>])]
  /\ UNCHANGED <<exportVars, other, uiVars, merged, fileDrop, renderer>>

\* res.sendFile looks the file up and opens it; when it is gone the callback of
\* line 332 gets the error and answers 500 (lines 333-335).
SendFileOpen ==
  /\ \E i \in DOMAIN server.downloads :
       /\ server.downloads[i].pc = "opening"
       /\ IF Exists(server.temp, server.downloads[i].name)
          THEN server' = [server EXCEPT
                 !.downloads[i].pc = "streaming",
                 !.downloads[i].data = <<TempFile(server.temp, server.downloads[i].name).data>>]
          ELSE server' = [server EXCEPT
                 !.downloads = RemoveAt(@, i),
                 !.log = Append(@, [kind |-> "lost", name |-> server.downloads[i].name])]
  /\ UNCHANGED <<exportVars, other, uiVars, merged, fileDrop, renderer>>

\* The transfer completes: the callback runs without an error and sets the
\* cleanup timer (lines 336-350).
SendFileDone ==
  /\ \E i \in DOMAIN server.downloads :
       /\ server.downloads[i].pc = "streaming"
       /\ server' = [server EXCEPT
             !.downloads = RemoveAt(@, i),
             !.timers = Append(@, server.downloads[i].name),
             !.log = Append(@, [kind |-> "sent", name |-> server.downloads[i].name])]
  /\ UNCHANGED <<exportVars, other, uiVars, merged, fileDrop, renderer>>

\* The client goes away during the transfer: the callback gets the error
\* (lines 333-335) and no timer is set.
SendFileAbort ==
  /\ \E i \in DOMAIN server.downloads :
       /\ server.downloads[i].pc = "streaming"
       /\ server' = [server EXCEPT
             !.downloads = RemoveAt(@, i),
             !.log = Append(@, [kind |-> "aborted", name |-> server.downloads[i].name])]
  /\ UNCHANGED <<exportVars, other, uiVars, merged, fileDrop, renderer>>

\* Lines 338-350: the oldest timer fires, five seconds after its download.
CleanupTimer ==
  /\ server.timers # <<>>
  /\ LET filename == Head(server.timers)
     IN IF Exists(server.temp, filename)
        THEN server' = [server EXCEPT
               !.timers = Tail(@),
               !.temp = Unlink(@, filename),
               !.log = Append(@, [kind |-> "deleted", name |-> filename])]
        ELSE server' = [server EXCEPT !.timers = Tail(@)]
  /\ UNCHANGED <<exportVars, other, uiVars, merged, fileDrop, renderer>>

NextDownload ==
  \/ Tick
  \/ PostSvgToStl
  \/ PostWrite
  \/ GetDownload
  \/ SendFileOpen
  \/ SendFileDone
  \/ SendFileAbort
  \/ CleanupTimer

SpecDownload == InitDownload /\ [][NextDownload]_vars

\* -------------------------------------------------- FileDropZone
\* Largest nesting of drag targets entered, and largest number of file lists
\* handed to handleFiles in one behaviour.
MaxDragDepth == 3
MaxSelections == 2

\* A mime type is <<type, subtype>>, '' is <<>>; an entry of accept is a mime
\* type, <<"image", "*">>, or an extension <<ext>>.
Includes(list, entry) == \E i \in DOMAIN list : list[i] = entry

\* mime.startsWith('image/').
StartsWithImage(mime) == Len(mime) = 2 /\ mime[1] = "image"

\* Lines 203-212.
validateFileTypeMimes(accept, mimes) ==
  \A i \in DOMAIN mimes :
    \/ Includes(accept, <<"image", "*">>) /\ StartsWithImage(mimes[i])
    \/ Includes(accept, mimes[i])

\* Lines 188-201; file.name.split('.').pop() is the last part of the name.
validateFileType(accept, file) ==
  IF validateFileTypeMimes(accept, <<file.type>>) THEN TRUE
  ELSE IF file.type = <<>>
       THEN LET ext == file.name[Len(file.name)]
            IN ext # "" /\ Includes(accept, <<ext>>)
       ELSE Includes(accept, file.type)

\* Variant of handleFiles: the file name is taken before the checks.
handleFilesNameFirst(fd, files, via) ==
  IF \E i \in DOMAIN files : ~validateFileType(fd.accept, files[i])
  THEN [fd EXCEPT !.filename = <<files[1].name>>, !.calls = @ + 1,
                  !.last = <<[via |-> via, files |-> files, threw |-> "type"]>>]
  ELSE IF \E i \in DOMAIN files : files[i].size > fd.maxSize
  THEN [fd EXCEPT !.filename = <<files[1].name>>, !.calls = @ + 1,
                  !.last = <<[via |-> via, files |-> files, threw |-> "size"]>>]
  ELSE [fd EXCEPT !.filename = <<files[1].name>>,
                  !.emitted = @ + 1, !.calls = @ + 1,
                  !.last = <<[via |-> via, files |-> files, threw |-> "no"]>>]

\* Lines 166-180: the component after handleFiles(files); calls and last are
\* history: the number of calls, and of the last one the list handed over, by
\* which way, and whether it threw.
handleFiles(fd, files, via) ==
  IF \E i \in DOMAIN files : ~validateFileType(fd.accept, files[i])
  THEN [fd EXCEPT !.calls = @ + 1, !.last = <<[via |-> via, files |-> files, threw |-> "type"]>>]
  ELSE IF \E i \in DOMAIN files : files[i].size > fd.maxSize
  THEN [fd EXCEPT !.calls = @ + 1, !.last = <<[via |-> via, files |-> files, threw |-> "size"]>>]
  ELSE [fd EXCEPT !.filename = <<files[1].name>>,
                  !.emitted = @ + 1, !.calls = @ + 1,
                  !.last = <<[via |-> via, files |-> files, threw |-> "no"]>>]

\* The files a user has at hand.
UserFiles ==
  { [name |-> <<"a", "svg">>, type |-> <<"image", "svg+xml">>, size |-> 1],
    [name |-> <<"b", "png">>, type |-> <<"image", "png">>, size |-> 1],
    [name |-> <<"c", "svg">>, type |-> <<>>, size |-> 1],
    [name |-> <<"d", "svg">>, type |-> <<"image", "svg+xml">>, size |-> 3] }

\* The non-empty lists of one or two files.
FileLists == SeqsUpTo(UserFiles, 2) \ {<<>>}

\* The mime types of the items of a drag.
DragTypes == { <<>>, <<<<"image", "svg+xml">>>>, <<<<"image", "png">>>>, <<<<"text", "plain">>>>,
               <<<<"image", "svg+xml">>, <<"text", "plain">>>> }

InitDrop ==
  /\ \E accept \in { <<<<"image", "svg+xml">>>>, <<<<"image", "*">>>>,
                      <<<<"image", "svg+xml">>, <<"svg">>>> } :
       fileDrop = [NoFileDrop EXCEPT !.accept = accept, !.maxSize = 2]
  /\ NoUI
  /\ renderer = NoRenderer
  /\ server = NoServer
  /\ merged = NoMerged
  /\ other = NoCall
  /\ scene = <<>>
  /\ pc = "none"
  /\ stack = <<>>
  /\ components = <<>>
  /\ materials = <<>>
  /\ zip = <<>>
  /\ zipCalls = 0
  /\ leafOf = <<>>
  /\ blob = <<>>

\* Variant of DragLeave: the count is not brought back to 0.
DragLeaveUnclamped ==
  /\ LET count == fileDrop.dragEnterCount - 1
     IN fileDrop' = [fileDrop EXCEPT
          !.event = "dragleave",
          !.dragEnterCount = count,
          !.isGlobalDragging = IF count = 0 THEN FALSE ELSE @]
  /\ UNCHANGED <<exportVars, other, uiVars, merged, server, renderer>>

\* Lines 99-110: the dragenter listener; a drag without items or with a type
\* that is not accepted changes nothing.
DragEnter ==
  /\ \E types \in DragTypes :
       IF types = <<>> \/ ~validateFileTypeMimes(fileDrop.accept, types)
       THEN fileDrop' = [fileDrop EXCEPT !.event = "dragenter"]
       ELSE /\ fileDrop.dragEnterCount < MaxDragDepth
            /\ fileDrop' = [fileDrop EXCEPT
                  !.event = "dragenter",
                  !.dragEnterCount = @ + 1,
                  !.isGlobalDragging = IF fileDrop.dragEnterCount + 1 = 1 THEN TRUE ELSE @]
  /\ UNCHANGED <<exportVars, other, uiVars, merged, server, renderer>>

\* Lines 124-131: the dragleave listener.
DragLeave ==
  /\ LET count == fileDrop.dragEnterCount - 1
     IN fileDrop' = [fileDrop EXCEPT
          !.event = "dragleave",
          !.dragEnterCount = IF count < 0 THEN 0 ELSE count,
          !.isGlobalDragging = IF count = 0 THEN FALSE ELSE @]
  /\ UNCHANGED <<exportVars, other, uiVars, merged, server, renderer>>

\* Lines 117-122 and 134-143: a drop outside the zone, or without files, runs the
\* global listener only; a drop of files on the zone runs handleFiles as well.
Drop ==
  /\ \/ fileDrop' = [fileDrop EXCEPT !.event = "drop", !.isGlobalDragging = FALSE,
                                      !.dragEnterCount = 0]
     \/ /\ fileDrop.calls < MaxSelections
        /\ \E files \in FileLists :
             fileDrop' = [handleFiles(fileDrop, files, "drop") EXCEPT
                            !.event = "drop", !.isGlobalDragging = FALSE,
                            !.dragEnterCount = 0]
  /\ UNCHANGED <<exportVars, other, uiVars, merged, server, renderer>>

\* Lines 146-163: the change event of the file input; an empty selection returns.
handleFileSelect ==
  /\ fileDrop.calls < MaxSelections
  /\ \E files \in FileLists :
       fileDrop' = [handleFiles(fileDrop, files, "input") EXCEPT !.event = "change"]
  /\ UNCHANGED <<exportVars, other, uiVars, merged, server, renderer>>

NextDrop ==
  \/ DragEnter
  \/ DragLeave
  \/ Drop
  \/ handleFileSelect

SpecDrop == InitDrop /\ [][NextDrop]_vars

\* -------------------------------------------------- ModelRenderer.vue
\* Largest number of shapes of props.shapes.
MaxShapes == 3

\* Lengths are whole numbers of half-thousandths: the default scale 0.001 is 2.
ZScale == 2

\* Lines 108-110: toFixed(10) and back; a whole number of half-thousandths has
\* no digit past the tenth decimal, so it is kept.
fixFloat(num) == num

\* Map.prototype.get(key) || 0 and Map.prototype.set on a map kept as a function.
GetOrZero(map, key) == IF key \in DOMAIN map THEN map[key] ELSE 0

MapSet(map, key, value) == [k \in DOMAIN map \cup {key} |-> IF k = key THEN value ELSE map[k]]

\* Lines 72-90: the first map from position i, shapes of equal startZ moved down.
RECURSIVE SpreadBottoms(_, _, _)
SpreadBottoms(shapes, i, offsets) ==
  IF i > Len(shapes) THEN <<>>
  ELSE LET shape == shapes[i]
       IN IF shape.depth = 0 THEN <<shape>> \o SpreadBottoms(shapes, i + 1, offsets)
          ELSE LET offset == shape.startZ
                   offsetCount == GetOrZero(offsets, offset)
                   newOffset == fixFloat(offsetCount * ZScale)
                   moved == IF offsetCount # 0
                            THEN [shape EXCEPT !.depth = fixFloat(shape.depth + newOffset),
                                               !.startZ = fixFloat(shape.startZ - newOffset)]
                            ELSE shape
               IN <<moved>> \o SpreadBottoms(shapes, i + 1, MapSet(offsets, offset, offsetCount + 1))

\* Lines 90-105: the second map from position i, shapes of equal top made deeper.
RECURSIVE SpreadTops(_, _, _)
SpreadTops(shapes, i, depths) ==
  IF i > Len(shapes) THEN <<>>
  ELSE LET shape == shapes[i]
       IN IF shape.depth = 0 THEN <<shape>> \o SpreadTops(shapes, i + 1, depths)
          ELSE LET depth == fixFloat(shape.startZ + shape.depth)
                   depthCount == GetOrZero(depths, depth)
                   grown == IF depthCount # 0
                            THEN [shape EXCEPT !.depth = fixFloat(shape.depth + depthCount * ZScale)]
                            ELSE shape
               IN <<grown>> \o SpreadTops(shapes, i + 1, MapSet(depths, depth, depthCount + 1))

\* Lines 68-106, with the default scale.
suppressZFighting(shapes) == SpreadTops(SpreadBottoms(shapes, 1, <<>>), 1, <<>>)

\* The shapes of the props: a name for the object, a startZ and a depth.
ShapeValues == [startZ : {-2, -1, 0}, depth : {0, 4, 6}]

InitRenderer ==
  /\ \E shapes \in SeqsUpTo(ShapeValues, MaxShapes) :
       renderer = [NoRenderer EXCEPT !.shapes = shapes, !.pc = "stale"]
  /\ NoUI
  /\ fileDrop = NoFileDrop
  /\ server = NoServer
  /\ merged = NoMerged
  /\ other = NoCall
  /\ scene = <<>>
  /\ pc = "none"
  /\ stack = <<>>
  /\ components = <<>>
  /\ materials = <<>>
  /\ zip = <<>>
  /\ zipCalls = 0
  /\ leafOf = <<>>
  /\ blob = <<>>

\* Line 113: the computed shownShapes is evaluated.
ComputeShownShapes ==
  /\ renderer.pc = "stale"
  /\ renderer' = [renderer EXCEPT
        !.pc = "computed",
        !.result = suppressZFighting(renderer.shapes),
        !.shownShapes = SelectSeq(suppressZFighting(renderer.shapes), LAMBDA s : s.depth # 0)]
  /\ UNCHANGED <<exportVars, other, uiVars, merged, server, fileDrop>>

NextRenderer ==
  \/ ComputeShownShapes

SpecRenderer == InitRenderer /\ [][NextRenderer]_vars

Spec == Init /\ [][Next]_vars

\* ------------------------------------------------------- properties
\* The colour a mesh leaf with a material is looked up under.
LeafColour(k) == MaterialColour(scene.node[leafOf[k]].material[1])

LeafHasMaterial(k) == scene.node[leafOf[k]].material # <<>>

\* The entry of that path in an archive.
Entry(z, path) == CHOOSE e \in { z[i] : i \in 1 .. Len(z) } : e.name = path

EntryCount(z, path) == Cardinality({ i \in 1 .. Len(z) : z[i].name = path })

\* C1: the material table never holds two entries with the same three channels, and
\* two mesh leaves whose material colours are equal in all three channels have
\* components with the same material id.
C1_UniqueMaterialPerColour ==
  /\ \A i, j \in 1 .. Len(materials) :
       i # j => ~(/\ materials[i].color.r = materials[j].color.r
                  /\ materials[i].color.g = materials[j].color.g
                  /\ materials[i].color.b = materials[j].color.b)
  /\ \A a, b \in 1 .. Len(components) :
       (LeafHasMaterial(a) /\ LeafHasMaterial(b) /\ LeafColour(a) = LeafColour(b))
         => /\ components[a].material # <<>>
            /\ components[b].material # <<>>
            /\ components[a].material[1].id = components[b].material[1].id

\* C1 witness: the traversal is over, two leaves shared a colour and two colours were met.
C1_Witness ==
  /\ pc = "generating"
  /\ Len(materials) = 2
  /\ \E a, b \in 1 .. Len(components) :
       a # b /\ LeafHasMaterial(a) /\ LeafHasMaterial(b) /\ LeafColour(a) = LeafColour(b)

\* C2: a collectComponents call on a mesh whose colour is not in the table appends
\* one entry with id = previous length and extruder = id + 1 and leaves the earlier
\* entries as they were; any other step leaves the table as it was; hence the i-th
\* entry (0-based) has id i and extruder i + 1.
C2_Step ==
  LET mesh == scene.node[Head(stack)]
      meets == pc = "collect" /\ stack # <<>> /\ mesh.type = "Mesh" /\ mesh.material # <<>>
      known == \E i \in 1 .. Len(materials) :
                 materials[i].color = MaterialColour(mesh.material[1])
  IN IF meets /\ ~known
     THEN /\ Len(materials') = Len(materials) + 1
          /\ SubSeq(materials', 1, Len(materials)) = materials
          /\ materials'[Len(materials')].id = Len(materials)
          /\ materials'[Len(materials')].extruder = Len(materials) + 1
          /\ materials'[Len(materials')].color = MaterialColour(mesh.material[1])
     ELSE materials' = materials

C2_Numbered ==
  \A i \in 1 .. Len(materials) : materials[i].id = i - 1 /\ materials[i].extruder = i

C2_RegisterAppendsInOrder == [](C2_Numbered) /\ [][C2_Step]_vars

\* C2 witness: three leaves were collected, one of them with a colour already present.
C2_Witness == Len(components) = 3 /\ Len(materials) = 2 /\ pc = "done"

\* The project-settings document of a packaged archive.
ProjectSettings(z) == Entry(z, <<"Metadata/project_settings.config">>).data.doc

\* C3: for M registered materials filament_colour has max(2, M) entries: the hex
\* colours of the M materials in table order, then '#FFFFFF' padding.
C3_FilamentColours ==
  pc \in {"generating", "done"} =>
    LET colours == ProjectSettings(zip).filament_colour
        M == Len(materials)
    IN /\ Len(colours) = (IF M < 2 THEN 2 ELSE M)
       /\ \A i \in 1 .. Len(colours) :
            colours[i] = (IF i <= M THEN rgbToHexColor(materials[i].color)
                          ELSE <<"#", "F", "F", "F", "F", "F", "F">>)

\* C3 witness: an archive was packaged with no material registered.
C3_Witness ==
  /\ pc = "generating"
  /\ Len(materials) = 0
  /\ Len(components) > 0
  /\ Len(ProjectSettings(zip).filament_colour) = 2

\* C4: a returned archive holds the six entries at exactly these paths, and no
\* zip.file call replaced an entry written before.
RequiredPaths ==
  { <<"[Content_Types].xml">>,
    <<"_rels/.rels">>,
    <<"3D/3dmodel.model">>,
    <<"3D/_rels/3dmodel.model.rels">>,
    <<"Metadata/model_settings.config">>,
    <<"Metadata/project_settings.config">> }

C4_RequiredEntries ==
  pc = "done" =>
    /\ blob # <<>>
    /\ \A path \in RequiredPaths : EntryCount(blob[1], path) = 1
    /\ zipCalls = Len(blob[1])

\* C4 witness: the archive of a scene without mesh leaves was returned.
C4_Witness ==
  /\ pc = "done"
  /\ blob # <<>>
  /\ \A n \in 1 .. scene.size : scene.node[n].type # "Mesh"

\* The documents of a packaged archive.
MainModel(z) == Entry(z, <<"3D/3dmodel.model">>).data.doc

ObjectModel(z) == Entry(z, <<"3D/Objects/object-", "9", "7", ".model">>).data.doc

ModelSettings(z) == Entry(z, <<"Metadata/model_settings.config">>).data.doc

RECURSIVE SumOver(_, _)
SumOver(f, i) == IF i > Len(f) THEN 0 ELSE f[i] + SumOver(f, i + 1)

TotalVertices(z) == SumOver([i \in 1 .. Len(ObjectModel(z)) |-> Len(ObjectModel(z)[i].vertices)], 1)

TotalTriangles(z) == SumOver([i \in 1 .. Len(ObjectModel(z)) |-> Len(ObjectModel(z)[i].triangles)], 1)

\* The scene of the scenario: a group holding leaf A (the indexed unit square,
\* #FFA500) and leaf B (the same square translated by (10,0,0), #FFA500).
TwoOrangeSquares ==
  /\ scene.size = 3
  /\ scene.parent = <<0, 1, 1>>
  /\ scene.node[1] = GroupNode(0)
  /\ scene.node[2] = MeshNode("A", 0, Coloured([r |-> 510, g |-> 330, b |-> 0]), SquareGeom)
  /\ scene.node[3] = MeshNode("B", 10, Coloured([r |-> 510, g |-> 330, b |-> 0]), SquareGeom)

ScenarioCounts ==
  /\ Len(materials) = 1
  /\ TotalVertices(blob[1]) = 8
  /\ TotalTriangles(blob[1]) = 4
  /\ ObjectModel(blob[1])[2].vertices[2].x = 110000000

\* C5 as stated: the scenario yields one material, 8 vertices, 4 triangles and the
\* filament colour list ('#FFA500', '#FFFFFF').
C5_ScenarioUpperCase ==
  (pc = "done" /\ TwoOrangeSquares) =>
    /\ ScenarioCounts
    /\ ProjectSettings(blob[1]).filament_colour =
         << <<"#", "F", "F", "A", "5", "0", "0">>, <<"#", "F", "F", "F", "F", "F", "F">> >>

\* C5 as amended: the scenario yields one material, 8 vertices, 4 triangles and the
\* filament colour list ('#ffa500', '#FFFFFF'): a material colour is written with
\* lower-case hex digits, the padding with upper-case ones.
C5_ScenarioLowerCase ==
  (pc = "done" /\ TwoOrangeSquares) =>
    /\ ScenarioCounts
    /\ ProjectSettings(blob[1]).filament_colour =
         << <<"#", "f", "f", "a", "5", "0", "0">>, <<"#", "F", "F", "F", "F", "F", "F">> >>

\* C5 witness: the archive of the scenario was returned.
C5_Witness == pc = "done" /\ TwoOrangeSquares /\ Len(components) = 2

NoMeshLeaves == \A n \in 1 .. scene.size : scene.node[n].type # "Mesh"

\* C6: the package returned for a scene without mesh leaves declares no geometry:
\* no component reference, no mesh object, no part, and no printable build item
\* that points at an object without geometry.
C6_EmptySceneDeclaresNoGeometry ==
  (pc = "done" /\ NoMeshLeaves) =>
    LET main == MainModel(blob[1])
    IN /\ Len(main.object.components) = 0
       /\ Len(ObjectModel(blob[1])) = 0
       /\ Len(ModelSettings(blob[1]).object.parts) = 0
       /\ ~(/\ main.build.item.printable = "1"
            /\ main.build.item.objectid = main.object.id
            /\ Len(main.object.components) = 0)

\* C7: every triangle index of every component is a valid index into the vertex
\* list of that component.
C7_TriangleIndicesValid ==
  \A k \in 1 .. Len(components) :
    \A t \in 1 .. Len(components[k].triangles) :
      LET tri == components[k].triangles[t]
          count == Len(components[k].vertices)
      IN /\ 0 <= tri.v1 /\ tri.v1 < count
         /\ 0 <= tri.v2 /\ tri.v2 < count
         /\ 0 <= tri.v3 /\ tri.v3 < count

\* The index count (indexed) or vertex count (non-indexed) of a geometry with a
\* position attribute is not a multiple of three.
OddCount(geometry) ==
  IF geometry.index # <<>> THEN Len(geometry.index[1]) % 3 # 0
  ELSE Len(geometry.position[1]) % 3 # 0

\* C8: a mesh leaf whose index or vertex count is not a multiple of three yields no
\* component, object or part, and every other mesh leaf of the scene is exported.
C8_OddLeavesSkipped ==
  pc = "done" =>
    /\ { leafOf[k] : k \in 1 .. Len(leafOf) } =
         { n \in 1 .. scene.size :
             scene.node[n].type = "Mesh" /\ ~OddCount(scene.node[n].geometry) }
    /\ Len(ObjectModel(blob[1])) = Len(leafOf)
    /\ Len(ModelSettings(blob[1]).object.parts) = Len(leafOf)

\* C9: a collectComponents call on a mesh with zero vertices or without a position
\* attribute does not fail the export: it appends a record with zero vertices and
\* zero triangles and the traversal goes on with the children and the rest.
C9_EmptyLeafStep ==
  LET n == Head(stack)
      geometry == scene.node[n].geometry
      empty == \/ geometry.position = <<>>
               \/ (geometry.position[1] = <<>> /\ geometry.index = <<>>)
  IN (pc = "collect" /\ stack # <<>> /\ scene.node[n].type = "Mesh" /\ empty)
       => /\ pc' = "collect"
          /\ Len(components') = Len(components) + 1
          /\ components'[Len(components')].vertices = <<>>
          /\ components'[Len(components')].triangles = <<>>
          /\ stack' = Children(scene, n) \o Tail(stack)

C9_EmptyLeafNeverFails == [][C9_EmptyLeafStep]_vars

GrayText == <<"#", "8", "0", "8", "0", "8", "0">>

LeafColourless(k) == LeafHasMaterial(k) /\ scene.node[leafOf[k]].material[1].color = <<>>

\* A component whose leaf's material has no colour refers to a table entry of
\* colour #808080.
RegisteredGray(k) ==
  /\ components[k].material # <<>>
  /\ rgbToHexColor(components[k].material[1].color) = GrayText
  /\ components[k].material[1].id + 1 \in 1 .. Len(materials)
  /\ materials[components[k].material[1].id + 1] = components[k].material[1]

PartExtruderText(k) == ModelSettings(blob[1]).object.parts[k].extruder

C10_Components ==
  \A k \in 1 .. Len(components) :
    /\ LeafColourless(k) =>
         /\ RegisteredGray(k)
         /\ pc = "done" => PartExtruderText(k) = ToString10(components[k].material[1].extruder)
    /\ ~LeafHasMaterial(k) =>
         /\ components[k].material = <<>>
         /\ pc = "done" => PartExtruderText(k) = <<"1">>

C10_Step ==
  (pc = "collect" /\ pc' = "rejected") =>
    /\ scene.node[Head(stack)].geometry.position = <<>>
    /\ (scene.node[Head(stack)].material = <<>> => materials' = materials)

C11_MaterialIsTableEntry ==
  \A k \in 1 .. Len(components) :
    components[k].material # <<>> =>
      /\ components[k].material[1].id + 1 \in 1 .. Len(materials)
      /\ materials[components[k].material[1].id + 1] = components[k].material[1]

\* C11 witness: the first and third component share the first table entry and the
\* second component pushed a second entry in between.
C11_Witness ==
  /\ Len(components) = 3
  /\ Len(materials) = 2
  /\ components[1].material # <<>>
  /\ components[3].material = components[1].material
  /\ components[2].material # <<>>
  /\ components[2].material[1].id = 1

\* C13: in a packaged archive the component ids are pairwise distinct and differ
\* from 97; the component references of the main model, the objects of the object
\* model and the parts of the model settings carry the same ids; and the build
\* item, the settings object, the model instance and the assemble item refer to 97.
C13_IdsConsistent ==
  pc \in {"generating", "done"} =>
    LET main == MainModel(zip)
        objects == ObjectModel(zip)
        settings == ModelSettings(zip)
        refs == { main.object.components[i].objectid : i \in 1 .. Len(main.object.components) }
        ids == { objects[i].id : i \in 1 .. Len(objects) }
        parts == { settings.object.parts[i].id : i \in 1 .. Len(settings.object.parts) }
    IN /\ \A i, j \in 1 .. Len(components) : i # j => components[i].id # components[j].id
       /\ \A i \in 1 .. Len(components) : components[i].id # 97
       /\ refs = ids /\ ids = parts
       /\ Cardinality(ids) = Len(components)
       /\ Len(main.object.components) = Len(components)
       /\ Len(objects) = Len(components)
       /\ Len(settings.object.parts) = Len(components)
       /\ <<"9", "7">> \notin ids
       /\ main.object.id = <<"9", "7">>
       /\ main.build.item.objectid = <<"9", "7">>
       /\ settings.object.id = <<"9", "7">>
       /\ settings.model_instance.object_id = <<"9", "7">>
       /\ settings.assemble_item.object_id = <<"9", "7">>

\* C13 witness: an archive with three components was returned.
C13_Witness == pc = "done" /\ Len(components) = 3 /\ Len(ObjectModel(blob[1])) = 3

\* Depth-first pre-order of the subtree of node n, children in ascending order.
RECURSIVE PreOrder(_, _), PreOrderFrom(_, _, _)
PreOrder(s, n) == <<n>> \o PreOrderFrom(s, n, 1)

PreOrderFrom(s, n, c) ==
  IF c > s.size THEN <<>>
  ELSE (IF s.parent[c] = n THEN PreOrder(s, c) ELSE <<>>) \o PreOrderFrom(s, n, c + 1)

MeshPreOrder(s) == SelectSeq(PreOrder(s, 1), LAMBDA n : s.node[n].type = "Mesh")

IsPrefix(a, b) == Len(a) <= Len(b) /\ SubSeq(b, 1, Len(a)) = a

\* C12: the records are emitted in depth-first pre-order of the mesh nodes, children
\* in stored order: at any time the leaves emitted so far are a prefix of that
\* order, all of it once the traversal has ended, and the k-th record (0-based) has
\* component id 100 + k and holds the vertices of the k-th mesh.
C12_PreOrderRecords ==
  /\ Len(components) = Len(leafOf)
  /\ IsPrefix(leafOf, MeshPreOrder(scene))
  /\ pc \in {"generating", "done"} => leafOf = MeshPreOrder(scene)
  /\ \A k \in 1 .. Len(components) :
       /\ components[k].id = 100 + (k - 1)
       /\ Len(components[k].vertices) = Len(scene.node[leafOf[k]].geometry.position[1])
       /\ \A v \in 1 .. Len(components[k].vertices) :
            components[k].vertices[v].x =
              scene.node[leafOf[k]].geometry.position[1][v].x + MatrixWorld(scene, leafOf[k])

\* C12 witness: four meshes, the second with a child stored after its sibling, were
\* emitted in the order 1, 2, 4, 3.
C12_Witness ==
  /\ pc = "done"
  /\ scene.size = 4
  /\ scene.parent = <<0, 1, 1, 2>>
  /\ leafOf = <<1, 2, 4, 3>>

\* C14: no step of an export changes a node's type, name, local transform,
\* material or geometry, nor the tree; the only write to the scene is the cached
\* matrixWorld, set to the composition of the unchanged local transforms.
C14_Step ==
  /\ scene'.size = scene.size
  /\ scene'.parent = scene.parent
  /\ scene'.node = scene.node
  /\ \A n \in 1 .. scene.size :
       scene'.world[n] # scene.world[n] => scene'.world[n] = MatrixWorld(scene, n)

Alone(s) == CollectAll(s, <<1>>, <<>>, <<>>)

AloneZip(s) == ZipFiles(<<>>, ArchivePaths, ArchiveData(Alone(s).components, Alone(s).materials), 1)

Ran(e) == Len(events') = Len(events) + 1 /\ events'[Len(events')] = e

Happened(e) == \E i \in DOMAIN events : events[i] = e

C16_Step ==
  /\ Ran("3mf failed") =>
       /\ the3mfUrl' = the3mfUrl
       /\ \E i \in DOMAIN exports :
            /\ exports' = RemoveAt(exports, i)
            /\ exports[i].blob = <<>>
  /\ Ran("gltf error") => gltfUrl' = gltfUrl

\* C16: the step in which a 3MF export fails (exportTo3MF rejected, no blob was
\* returned) leaves the3mfUrl as it was, and the step in which the GLTF exporter
\* reports an error leaves gltfUrl as it was.
C16_FailedExportNoLink == [][C16_Step]_vars

\* C16 witness: a 3MF export failed while the link of an earlier successful one
\* was shown, and the link is still that one.
C16_Witness ==
  /\ Len(events) = 4
  /\ events[3] = "3mf done"
  /\ events[4] = "3mf failed"
  /\ the3mfUrl = <<AloneZip(modelGroup[1])>>

C17_Step ==
  /\ (the3mfUrl' # the3mfUrl /\ the3mfUrl' # <<>>) =>
       \E i \in DOMAIN exports :
         /\ exports[i].pc = "generating"
         /\ exports' = RemoveAt(exports, i)
         /\ the3mfUrl' = <<AloneZip(exports[i].scene)>>
  /\ (gltfUrl' # gltfUrl /\ gltfUrl' # <<>>) =>
       \E i \in DOMAIN gltfParses :
         /\ gltfParses' = RemoveAt(gltfParses, i)
         /\ Ran("gltf done")
         /\ gltfUrl' = <<LibraryResult("gltf", gltfParses[i])>>
  /\ Ran("3mf") => the3mfUrl' = the3mfUrl /\ Len(exports') = Len(exports) + 1
  /\ Ran("gltf") => gltfUrl' = gltfUrl /\ Len(gltfParses') = Len(gltfParses) + 1

\* C17: the3mfUrl (gltfUrl) becomes a link only in the step that ends a started
\* export successfully, and is then the result of that export; the click that
\* starts the export leaves the URL as it was.
C17_LinkOnlyAfterCompletion == [][C17_Step]_vars

\* C17 witness: a GLTF export and a 3MF export were started, both completed and
\* both links are set from their results.
C17_Witness ==
  /\ Happened("gltf done")
  /\ Happened("3mf done")
  /\ the3mfUrl = <<AloneZip(modelGroup[1])>>
  /\ gltfUrl = <<LibraryResult("gltf", modelGroup[1])>>

\* The vertices the leaves of the merged serializer contributed, summed.
MergedVertexSum == SumOver([k \in 1 .. Len(merged.leaves) |-> merged.leaves[k].count], 1)

\* The leaf whose triangles hold position t of the merged triangle list.
TriangleLeaf(t) ==
  CHOOSE k \in 1 .. Len(merged.leaves) :
    LET trianglesBefore(j) ==
          SumOver([m \in 1 .. j |->
                     Len(Triangles(merged.scene.node[merged.leaves[m].node].geometry))], 1)
    IN trianglesBefore(k - 1) < t /\ t <= trianglesBefore(k)

InLeaf(index, k) ==
  /\ merged.leaves[k].vertexOffset <= index
  /\ index < merged.leaves[k].vertexOffset + merged.leaves[k].count

\* C19: when processObject has returned, the global vertex list has exactly the
\* sum of the leaves' vertex counts, and every index of every triangle is below
\* that sum and within the vertices contributed by the triangle's own leaf.
C19_MergedIndicesValid ==
  merged.pc = "done" =>
    /\ Len(merged.vertices) = MergedVertexSum
    /\ \A t \in 1 .. Len(merged.triangles) :
         \A index \in {merged.triangles[t].v1, merged.triangles[t].v2, merged.triangles[t].v3} :
           /\ 0 <= index
           /\ index < MergedVertexSum
           /\ InLeaf(index, TriangleLeaf(t))

\* C26: the extruder of every part of model_settings.config is a position of the
\* filament_colour list of the same archive (1 for a part without a material), and
\* for a part with a material the colour at that position is the hex colour of
\* the material of the part's mesh.
C26_ExtruderIndexesFilament ==
  pc = "done" =>
    LET colours == ProjectSettings(blob[1]).filament_colour
        parts == ModelSettings(blob[1]).object.parts
    IN \A k \in 1 .. Len(parts) :
         \E e \in 1 .. Len(colours) :
           /\ parts[k].extruder = ToString10(e)
           /\ IF LeafHasMaterial(k) THEN colours[e] = rgbToHexColor(LeafColour(k)) ELSE e = 1

\* C26 witness: an archive with two materials, a part on extruder 2 and a part
\* whose mesh has no material.
C26_Witness ==
  /\ pc = "done"
  /\ Len(materials) = 2
  /\ \E k \in 1 .. Len(components) : PartExtruderText(k) = <<"2">>
  /\ \E k \in 1 .. Len(components) : ~LeafHasMaterial(k)

\* C27: at most one of stlUrl, objUrl, gltfUrl and the3mfUrl is non-empty, and a
\* click on a download link or on the close button leaves all four empty.
C27_Step ==
  (Ran("download") \/ Ran("close")) => ButtonsShown'

C27_Links == Cardinality({ u \in {"stl", "obj", "gltf", "3mf"} :
                             \/ u = "stl" /\ stlUrl # <<>>
                             \/ u = "obj" /\ objUrl # <<>>
                             \/ u = "gltf" /\ gltfUrl # <<>>
                             \/ u = "3mf" /\ the3mfUrl # <<>> })

C27_AtMostOneLink == [](C27_Links <= 1) /\ [][C27_Step]_vars

\* The responses of the server that report a success.
Successes == { i \in DOMAIN server.responses : server.responses[i].status = 200 }

\* C21: a successful response carries success = true, a downloadUrl naming the STL
\* file written to temp storage for it, a fileSize equal to the byte size of that
\* file and shapes equal to the number of shapes parsed from the upload.
C21_SuccessResponse ==
  \A i \in Successes :
    LET r == server.responses[i]
    IN /\ r.body.success = <<TRUE>>
       /\ \E f \in server.temp :
            /\ r.body.downloadUrl = <<DownloadUrl(f.name)>>
            /\ r.body.fileSize = <<f.data.byteLength>>
       /\ r.body.shapes = <<r.req.files[1].content.shapes>>

\* The status the claim gives a failing request, 0 for a request that does not fail.
FailureStatus(req) ==
  IF req.files = <<>> THEN 400
  ELSE LET file == req.files[1]
           svgByType == file.mimetype = <<"image", "svg+xml">>
           svgByName == file.originalname[Len(file.originalname)] = "svg" /\ Len(file.originalname) > 1
       IN IF ~svgByType /\ ~svgByName THEN 400
          ELSE IF file.content.empty \/ ~file.content.svgTag THEN 400
          ELSE IF file.content.throws THEN 500
          ELSE IF file.content.shapes = 0 THEN 400
          ELSE 0

\* C22: a failing request is answered with an error message and the status of
\* its case (400, or 500 when the conversion throws), never with success = true,
\* and with 400 no file is in temp storage.
C22_FailuresAnswered ==
  \A i \in DOMAIN server.responses :
    LET r == server.responses[i]
    IN FailureStatus(r.req) # 0 =>
         /\ r.status = FailureStatus(r.req)
         /\ r.body.error # <<>>
         /\ r.body.success = <<>>
         /\ r.status = 400 => server.temp = {}

\* C22 witness: a PNG upload was answered 400 with the bitmap message, and no
\* handler is left.
C22_Witness ==
  /\ server.inbox = <<>>
  /\ Len(server.responses) = 1
  /\ server.responses[1].req.files # <<>>
  /\ server.responses[1].req.files[1].mimetype = <<"image", "png">>
  /\ server.responses[1].status = 400
  /\ server.responses[1].body.error =
       <<"Bitmap images not supported in this server implementation. Please provide an SVG file.">>
  /\ server.temp = {}

\* The value the claim gives a parameter: the number in the form body when there
\* is one, else the number in the query string when there is one, else the default.
Supplied(bodyParam, queryParam, default) ==
  IF ParseFloat(bodyParam) # NaN THEN ParseFloat(bodyParam)
  ELSE IF ParseFloat(queryParam) # NaN THEN ParseFloat(queryParam)
  ELSE default

\* C23: the conversion uses the supplied depth and size, the form body before the
\* query string, and the defaults 2 and 37 only for a parameter that was not
\* supplied; the response reports the values the conversion used.
C23_SuppliedParametersUsed ==
  \A i \in Successes :
    LET r == server.responses[i]
        f == CHOOSE f \in server.temp : r.body.filename = <<f.name>>
    IN /\ f.data.depth = Supplied(r.req.body.depth, r.req.query.depth, 2)
       /\ f.data.size = Supplied(r.req.body.size, r.req.query.size, 37)
       /\ r.body.parameters = <<[depth |-> f.data.depth, size |-> f.data.size]>>

\* The positions of the log with an event of that kind for that file name.
Logged(kind, name) ==
  { i \in DOMAIN server.log : server.log[i].kind = kind /\ server.log[i].name = name }

\* C24: a download request is answered 404 exactly when the file is not in temp
\* storage; a file is deleted only after a download of it completed; a download
\* that was accepted is not failed by the cleanup that follows another download
\* of the same file; a request after the deletion gets 404.
C24_DownloadAndCleanup ==
  /\ \A i \in DOMAIN server.log :
       server.log[i].kind = "deleted" =>
         \E j \in Logged("sent", server.log[i].name) : j < i
  /\ \A i \in DOMAIN server.log : server.log[i].kind # "lost"
  /\ \A i \in DOMAIN server.log :
       server.log[i].kind = "accepted" =>
         \A j \in Logged("deleted", server.log[i].name) : i < j

\* The file names given to the conversions so far, answered or not.
AssignedFilenames ==
  [i \in 1 .. Len(server.posts) |-> server.posts[i].filename]
  \o [k \in 1 .. Len(SelectSeq(server.responses, LAMBDA r : r.status = 200)) |->
        SelectSeq(server.responses, LAMBDA r : r.status = 200)[k].body.filename[1]]

\* C25: the file names given to distinct conversions are distinct, also for
\* uploads of the same original name whose handlers overlap.
C25_DistinctFilenames ==
  \A i, j \in DOMAIN AssignedFilenames :
    i # j => AssignedFilenames[i] # AssignedFilenames[j]

\* C28: dragEnterCount is never negative, isGlobalDragging is true exactly when
\* dragEnterCount is positive, and after a drop the count is 0 and the flag false.
C28_DragCountConsistent ==
  /\ fileDrop.dragEnterCount >= 0
  /\ fileDrop.isGlobalDragging <=> fileDrop.dragEnterCount > 0
  /\ fileDrop.event = "drop" => fileDrop.dragEnterCount = 0 /\ ~fileDrop.isGlobalDragging

\* C28 witness: after nested dragenter events one dragleave has run and the drag
\* is still inside.
C28_Witness ==
  /\ fileDrop.event = "dragleave"
  /\ fileDrop.dragEnterCount = 2
  /\ fileDrop.isGlobalDragging

\* The accepted-type check on one file, as the claim reads it.
TypeAccepted(accept, file) ==
  \/ \E i \in DOMAIN accept : accept[i] = file.type
  \/ (\E i \in DOMAIN accept : accept[i] = <<"image", "*">>) /\ file.type # <<>> /\ file.type[1] = "image"
  \/ file.type = <<>> /\ \E i \in DOMAIN accept : accept[i] = <<file.name[Len(file.name)]>>

C29_Step ==
  IF fileDrop'.calls = fileDrop.calls + 1
  THEN LET call == fileDrop'.last[1]
           good == /\ \A i \in DOMAIN call.files : TypeAccepted(fileDrop.accept, call.files[i])
                   /\ \A i \in DOMAIN call.files : call.files[i].size <= fileDrop.maxSize
       IN IF good
          THEN /\ call.threw = "no"
               /\ fileDrop'.emitted = fileDrop.emitted + 1
               /\ fileDrop'.filename = <<call.files[1].name>>
          ELSE /\ call.threw # "no"
               /\ fileDrop'.emitted = fileDrop.emitted
               /\ fileDrop'.filename = fileDrop.filename
  ELSE fileDrop'.emitted = fileDrop.emitted /\ fileDrop'.filename = fileDrop.filename

\* C29: a call of handleFiles, from the file input or from a drop, emits
\* fileSelected and sets filename to the first file's name when every file passes
\* the type check and none is larger than maxSize; otherwise it throws, emits
\* nothing and leaves filename; nothing else emits or sets filename.
C29_ValidatedBeforeSelected == [][C29_Step]_vars

\* C29 witness: after a selection that set the file name, a drop of a file that
\* is too large threw and the file name is still the earlier one.
C29_Witness ==
  /\ fileDrop.calls = 2
  /\ fileDrop.emitted = 1
  /\ fileDrop.last # <<>>
  /\ fileDrop.last[1].via = "drop"
  /\ fileDrop.last[1].threw = "size"
  /\ fileDrop.filename = <<<<"a", "svg">>>>

\* C30: of the shapes with a depth that suppressZFighting returns no two have the
\* same bottom (startZ) and no two the same top (startZ + depth); a shape of
\* depth 0 is returned as it was, and the shapes of the props are as before.
C30_NoCoincidentFaces ==
  renderer.pc = "computed" =>
    /\ Len(renderer.result) = Len(renderer.shapes)
    /\ \A i, j \in DOMAIN renderer.result :
         (i # j /\ renderer.result[i].depth # 0 /\ renderer.result[j].depth # 0) =>
           /\ renderer.result[i].startZ # renderer.result[j].startZ
           /\ renderer.result[i].startZ + renderer.result[i].depth
                # renderer.result[j].startZ + renderer.result[j].depth
    /\ \A i \in DOMAIN renderer.shapes :
         renderer.shapes[i].depth = 0 => renderer.result[i] = renderer.shapes[i]

====
